---- MODULE Spec2Model ----
(***************************************************************************)
(* Interactive table extraction pipeline of scripts/scraper3.py:           *)
(* the link queue navigator (get_user_selection, get_post_scrape_action,   *)
(* main), the per-link browser page and capture future (process_link,      *)
(* on_selection, SELECTOR_JS), the tiered extraction engine                *)
(* (parse_html_to_records, parse_with_ai_agent, manual_html_fallback) and  *)
(* the persistence call (save_procurement_data_to_convex).                 *)
(*                                                                         *)
(* One action is the code that runs between two suspension points of the   *)
(* single event loop: a console input(), the await on the capture future,  *)
(* or an await on the page during which the page can call the exposed      *)
(* hook.  Synchronous calls (pandas, the AI action, the mutation, the      *)
(* debug file write) are part of the action that makes them; their         *)
(* outcomes are inputs of that action.                                     *)
(*                                                                         *)
(* Spec is the whole program.  NavSpec is main's navigator with every pass *)
(* of the two menu loops a step; ParseSpec is the structured parse applied *)
(* to one markup fragment.  SelectorSpec is the in-page selector script of  *)
(* scraper3.py, scraper.py (hotkey) or scraper_tool.py on one page, under  *)
(* every sequence of evaluations, pointer moves, triggers and timers.      *)
(* InputSpec is get_manual_html_input read line by line inside the paste   *)
(* attempts of manual_html_fallback; WaitSpec is get_wait_strategy applied *)
(* to one URL; DebugSpec is save_debug_html under a sequence of calls.     *)
(*                                                                         *)
(* Failures of the environment are the ones the code has a handler for:    *)
(* the link query, page.goto, expose_function, evaluate, client.action,    *)
(* client.mutation and the write of the debug file.  The libraries the     *)
(* script imports are installed and the console can print.                 *)
(***************************************************************************)
EXTENDS Integers, Sequences, FiniteSets, TLC

\* ---------------------------------------------------------------------
\* Bounds of the model
\* ---------------------------------------------------------------------
MaxLinks == 2

MaxVisits == 2

MaxHookCalls == 2

\* SelectorSpec: evaluations of SELECTOR_JS on one page, and capture
\* triggers (clicks, hotkey presses) on it
MaxEvaluations == 2

MaxTriggers == 3

\* InputSpec: lines collected by one call of get_manual_html_input
MaxInputLines == 3

\* DebugSpec: calls of save_debug_html
MaxDebugCalls == 2

\* ---------------------------------------------------------------------
\* Program constants
\* ---------------------------------------------------------------------
max_retries == 3

\* ---------------------------------------------------------------------
\* Python None for an optional integer: the empty tuple; a defined
\* integer i is the one-element tuple <<i>>.
\* ---------------------------------------------------------------------
None == <<>>

Some(i) == <<i>>

Get(o) == o[1]

\* ---------------------------------------------------------------------
\* Typed cell values.  A value carries its Python type and its text.
\* ---------------------------------------------------------------------
StrV(s) == [t |-> "str", v |-> s]

IntV(s) == [t |-> "int", v |-> s]

FloatV(s) == [t |-> "float", v |-> s]

NaN == [t |-> "float", v |-> "nan"]

\* cell texts that pandas' type inference reads as integers
NumericText == {"100", "7"}

\* cell texts the parser reads as a missing value (its default na_values)
NaTexts == {"", "N/A"}

IsBlank(c) == c \in NaTexts

\* ---------------------------------------------------------------------
\* Markup.  A markup is named by a string and holds the <table> elements
\* found in it, in document order; a table is its header labels and its
\* body rows of raw cell text.
\* ---------------------------------------------------------------------
Tbl(h, r) == [header |-> h, rows |-> r]

Markups == {"DIV", "EMPTY_TABLE", "BLANK_ROWS", "TX", "ABC", "TWO"}

Tables(m) ==
  CASE m = "DIV"         -> <<>>
    [] m = "EMPTY_TABLE" -> << Tbl(<<>>, <<>>) >>
    [] m = "BLANK_ROWS"  -> << Tbl(<<"State", "Amount">>, << <<"", "">> >>) >>
    [] m = "TX"          -> << Tbl(<<"State", "Amount">>, << <<"TX", "100">> >>) >>
    [] m = "ABC"         -> << Tbl(<<"A", "B", "C">>,
                                   << <<"x", "100", "">>, <<"", "7", "">>,
                                      <<"", "", "">> >>) >>
    [] m = "TWO"         -> << Tbl(<<"State", "Amount">>, << <<"", "">> >>),
                               Tbl(<<"State", "Amount">>, << <<"TX", "100">> >>) >>
    [] OTHER             -> <<>>

\* texts of the cells of the fragments below
CellTexts == {"", "N/A", "x", "100"}

\* the fragments that hold one well-formed table with header row
\* [A, B, C] and two data rows
AbcFragments ==
  {<< Tbl(<<"A", "B", "C">>, rows) >> :
     rows \in [{1, 2} -> [{1, 2, 3} -> CellTexts]]}

\* fragments of two <table> elements: a second table that differs from a
\* usable first one, a first table without header cells and rows, and a
\* blank table after a usable one
TwoTableFragments ==
  { << Tbl(<<"State", "Amount">>, << <<"TX", "100">> >>),
       Tbl(<<"City">>, << <<"x">>, <<"N/A">> >>) >>,
    << Tbl(<<>>, <<>>),
       Tbl(<<"State", "Amount">>, << <<"TX", "100">> >>) >>,
    << Tbl(<<"State", "Amount">>, << <<"", "N/A">>, <<"TX", "">> >>),
       Tbl(<<"State", "Amount">>, << <<"", "">> >>) >>,
    << Tbl(<<>>, <<>>), Tbl(<<>>, <<>>) >> }

\* the fragments the structured parse is applied to on its own
Fragments ==
  AbcFragments \cup {Tables(m) : m \in Markups} \cup TwoTableFragments

\* ---------------------------------------------------------------------
\* pandas: read_html, dropna, fillna, astype(str), to_dict
\* ---------------------------------------------------------------------
Indices(s) == 1..Len(s)

\* the subsequence of s at the positions that satisfy Keep, in order
RECURSIVE KeepAt(_, _, _)
KeepAt(s, keep, i) ==
  IF i > Len(s) THEN <<>>
  ELSE (IF i \in keep THEN <<s[i]>> ELSE <<>>) \o KeepAt(s, keep, i + 1)

\* dtype pandas infers for column j of a parsed table
ColumnDtype(tbl, j) ==
  LET cells == {tbl.rows[i][j] : i \in Indices(tbl.rows)}
      data  == {c \in cells : ~IsBlank(c)}
  IN  IF data \subseteq NumericText
        THEN (IF cells = data /\ cells # {} THEN "int" ELSE "float")
        ELSE "object"

\* the value read_html stores for cell text c in a column of dtype d
ParseCell(c, d) ==
  IF IsBlank(c) THEN NaN
  ELSE IF d = "int" THEN IntV(c)
  ELSE IF d = "float" THEN FloatV(c \o ".0")
  ELSE StrV(c)

\* _data_to_frame: a <table> with neither header cells nor rows raises
\* EmptyDataError and is skipped by read_html
IsEmptyData(tbl) == Len(tbl.header) = 0 /\ Len(tbl.rows) = 0

ToFrame(tbl) ==
  [columns |-> tbl.header,
   rows    |-> [i \in Indices(tbl.rows) |->
                 [j \in Indices(tbl.header) |->
                    ParseCell(tbl.rows[i][j], ColumnDtype(tbl, j))]]]

\* pd.read_html on a markup whose <table> elements are ts: ValueError
\* when there is none, otherwise the frames of the tables that hold data
read_html(ts) ==
  IF Len(ts) = 0
    THEN [raises |-> TRUE, dfs |-> <<>>]
    ELSE [raises |-> FALSE,
          dfs |-> LET keep == {i \in Indices(ts) : ~IsEmptyData(ts[i])}
                      kept == KeepAt(ts, keep, 1)
                  IN  [i \in Indices(kept) |-> ToFrame(kept[i])]]

\* df.dropna(how="all")
dropna_rows(df) ==
  LET keep == {i \in Indices(df.rows) :
                 \E j \in Indices(df.columns) : df.rows[i][j] # NaN}
  IN  [df EXCEPT !.rows = KeepAt(df.rows, keep, 1)]

\* df.dropna(axis=1, how="all")
dropna_cols(df) ==
  LET keep == {j \in Indices(df.columns) :
                 \E i \in Indices(df.rows) : df.rows[i][j] # NaN}
  IN  [columns |-> KeepAt(df.columns, keep, 1),
       rows    |-> [i \in Indices(df.rows) |-> KeepAt(df.rows[i], keep, 1)]]

\* mutant: the 'if main_df.empty' test is missing
df_empty_unchecked(df) == FALSE

\* df.empty
df_empty(df) == Len(df.rows) = 0 \/ Len(df.columns) = 0

\* mutant: the fillna("") call is missing
fillna_missing(df) == df

\* df.fillna("")
fillna(df) ==
  [df EXCEPT !.rows = [i \in Indices(df.rows) |->
      [j \in Indices(df.columns) |->
         IF df.rows[i][j] = NaN THEN StrV("") ELSE df.rows[i][j]]]]

\* mutant: the astype(str) loop is missing
astype_str_missing(df) == df

\* df[col].astype(str) on every column
astype_str(df) ==
  [df EXCEPT !.rows = [i \in Indices(df.rows) |->
      [j \in Indices(df.columns) |-> StrV(df.rows[i][j].v)]]]

\* df.to_dict(orient="records")
to_dict(df) ==
  [i \in Indices(df.rows) |->
     [l \in {df.columns[j] : j \in Indices(df.columns)} |->
        df.rows[i][CHOOSE j \in Indices(df.columns) : df.columns[j] = l]]]

\* mutant: the last table of the list is taken
FirstTable_last(dfs) == dfs[Len(dfs)]

\* main_df = dfs[0]
FirstTable(dfs) == dfs[1]

\* The structured parse shared by parse_html_to_records and
\* manual_html_fallback: the outcome of pandas on markup m.
\*   "value_error"  pd.read_html raised ValueError
\*   "no_tables"    read_html returned an empty list
\*   "empty"        the first table is empty after cleaning
\*   "ok"           records holds the rows of the first table
StructuredParseOf(ts) ==
  LET r == read_html(ts)
  IN  IF r.raises THEN [outcome |-> "value_error", records |-> <<>>]
      ELSE IF Len(r.dfs) = 0 THEN [outcome |-> "no_tables", records |-> <<>>]
      ELSE LET main_df == dropna_cols(dropna_rows(FirstTable(r.dfs)))
           IN  IF df_empty(main_df)
                 THEN [outcome |-> "empty", records |-> <<>>]
                 ELSE [outcome |-> "ok",
                       records |-> to_dict(astype_str(fillna(main_df)))]

\* the structured parse of the markup named m
StructuredParse(m) == StructuredParseOf(Tables(m))

\* ---------------------------------------------------------------------
\* Link Source.  A link is its _id and its procurementLink ("" when the
\* record has no URL).
\* ---------------------------------------------------------------------
Link(i, u) == [_id |-> i, procurementLink |-> u]

\* the collections the query can return: 0..MaxLinks links with a URL,
\* and MaxLinks links of which the last has none
LinkCollections ==
  {[i \in 1..n |-> Link(i, "https://x")] : n \in 0..MaxLinks}
    \cup {[i \in 1..MaxLinks |->
             Link(i, IF i = MaxLinks THEN "" ELSE "https://x")]}

\* ---------------------------------------------------------------------
\* Operator console: one line typed at a navigator menu.
\*   kind  "q" "l" "n" "p" "r"  the letter
\*         "j"     the letter j, then num typed at the second prompt
\*         "jbad"  the letter j, then a non-integer at the second prompt
\*         "num"   the integer num
\*         "bad"   any other text
\* ---------------------------------------------------------------------
Choice(k, n) == [kind |-> k, num |-> n]

Nums == (-1)..(MaxLinks + 1)

MenuChoices ==
  {Choice(k, 0) : k \in {"q", "l", "n", "p", "r", "jbad", "bad"}}
    \cup {Choice(k, n) : k \in {"j", "num"}, n \in Nums}

\* result of one pass of a menu loop: a returned (action, index), or
\* "again" when the loop prints msg and prompts again
Return(a, i) == [action |-> a, index |-> i, msg |-> ""]

Again(m) == [action |-> "again", index |-> None, msg |-> m]

\* mutant: the lower bound of the range test is 0
InRange_from_zero(num, total) == 0 <= num /\ num <= total

\* lines 196, 250, 258: 1 <= num <= total
InRange(num, total) == 1 <= num /\ num <= total

\* mutant: input that is not recognised selects the first link
Invalid_defaults_to_first(msg) == Return("goto", Some(0))

\* lines 200-201, 254-255, 262-263: int() raised ValueError, the loop
\* prints msg and prompts again
Invalid(msg) == Again(msg)

\* get_user_selection, one pass of its while loop on input choice
get_user_selection(total, current_index, choice) ==
  IF choice.kind = "q" THEN Return("quit", None)
  ELSE IF choice.kind = "l" THEN Again("list")
  ELSE IF choice.kind = "n" THEN
    IF current_index = None THEN Return("goto", Some(0))
    ELSE IF Get(current_index) < total - 1
      THEN Return("goto", Some(Get(current_index) + 1))
      ELSE Again("Already at the last link.")
  ELSE IF choice.kind = "p" THEN
    IF current_index = None \/ current_index = Some(0)
      THEN Again("Already at the first link.")
      ELSE Return("goto", Some(Get(current_index) - 1))
  ELSE IF choice.kind = "num" THEN
    IF InRange(choice.num, total)
      THEN Return("goto", Some(choice.num - 1))
      ELSE Again("Please enter number between 1 and total.")
  ELSE Invalid("Invalid input. Please try again.")

\* mutant: the test of line 239 off by one
HasNext_off_by_one(total, current_index) == current_index < total

\* line 239: a link follows position current_index
HasNext(total, current_index) == current_index < total - 1

\* mutant: the test of line 245 lets 'previous' through at the first link
HasPrev_at_first(current_index) == current_index >= 0

\* line 245: a link precedes position current_index
HasPrev(current_index) == current_index > 0

\* get_post_scrape_action, one pass of its while loop on input choice;
\* current_index is an integer here
get_post_scrape_action(total, current_index, choice) ==
  IF choice.kind = "q" THEN Return("quit", None)
  ELSE IF choice.kind = "l" THEN Again("list")
  ELSE IF choice.kind = "n" THEN
    IF HasNext(total, current_index)
      THEN Return("goto", Some(current_index + 1))
      ELSE Again("Already at the last link.")
  ELSE IF choice.kind = "p" THEN
    IF HasPrev(current_index)
      THEN Return("goto", Some(current_index - 1))
      ELSE Again("Already at the first link.")
  ELSE IF choice.kind = "r" THEN Return("goto", Some(current_index))
  ELSE IF choice.kind = "j" THEN
    IF InRange(choice.num, total)
      THEN Return("goto", Some(choice.num - 1))
      ELSE Again("Enter number between 1 and total.")
  ELSE IF choice.kind = "jbad" THEN Invalid("Invalid number.")
  ELSE IF choice.kind = "num" THEN
    IF InRange(choice.num, total)
      THEN Return("goto", Some(choice.num - 1))
      ELSE Again("Enter number between 1 and total.")
  ELSE Invalid("Invalid input. Please try again.")

\* ---------------------------------------------------------------------
\* AI Fallback Parser: what client.action can do.  raises: the call
\* raised; otherwise success and data are the fields of its result.
\* ---------------------------------------------------------------------
AiResult(r, s, d) == [raises |-> r, success |-> s, data |-> d]

\* rows as the service returns them: not normalised by this program
AiRowsText == << [State |-> StrV("TX"), Amount |-> StrV("100")] >>

AiRowsTyped == << [State |-> StrV("TX"), Amount |-> IntV("100")],
                  [State |-> StrV("NY"), Amount |-> NaN] >>

AiResults ==
  {AiResult(TRUE, FALSE, <<>>),
   AiResult(FALSE, FALSE, <<>>),
   AiResult(FALSE, FALSE, AiRowsText),
   AiResult(FALSE, TRUE, <<>>),
   AiResult(FALSE, TRUE, AiRowsText),
   AiResult(FALSE, TRUE, AiRowsTyped)}

\* mutant: the success flag of the result is not looked at
parse_with_ai_agent_ignores_success(result) ==
  IF result.raises THEN None
  ELSE IF Len(result.data) > 0 THEN result.data
  ELSE None

\* parse_with_ai_agent: the records, or None
parse_with_ai_agent(result) ==
  IF result.raises THEN None
  ELSE IF result.success /\ Len(result.data) > 0 THEN result.data
  ELSE None

\* ---------------------------------------------------------------------
\* Events of one process_link invocation, in program order
\*   e    "tier1"  pd.read_html ran          "debug"  save_debug_html ran
\*        "ai"     client.action ran         "offer"  manual paste offered
\*        "paste"  get_manual_html_input ran "preview" preview printed
\*        "retry"  'Try again?' asked        "summary" error summary printed
\*        "write"  client.mutation ran
\*        "confirm" 'Does this look correct?' was answered (info: answer)
\*        "nav_error" page.goto raised and 'Could not load' was printed
\*                    (info: the wait that raised)
\*        "skip"     's' was answered at the STEP 1 prompt
\*        "expose_error" page.expose_function raised
\*        "inject_error" page.evaluate(SELECTOR_JS) raised
\*   src  "capture" or "paste": where the markup m came from
\*   ok   for "tier1" and "ai": the step yielded usable rows
\*        for "debug": the file was written
\*   info for "tier1": the outcome of pandas; for the "ai" call on the
\*        captured markup: what the service reported ("raised",
\*        "success", "failure")
\*   url  for "debug" and "ai": the source_url argument of the call
\* ---------------------------------------------------------------------
EvU(e, src, m, ok, info, url) ==
  [e |-> e, src |-> src, m |-> m, ok |-> ok, info |-> info, url |-> url]

EvR(e, src, m, ok, info) == EvU(e, src, m, ok, info, "")

Ev(e, src, m) == EvR(e, src, m, FALSE, "")

AiReport(result) ==
  IF result.raises THEN "raised"
  ELSE IF result.success THEN "success" ELSE "failure"

\* the events of one structured parse and of one AI call
Tier1Event(src, m) ==
  EvR("tier1", src, m, StructuredParse(m).outcome = "ok",
      StructuredParse(m).outcome)

AiEvent(src, m, url, result, rows) ==
  EvU("ai", src, m, rows # None,
      IF src = "capture" THEN AiReport(result) ELSE "", url)

\* save_debug_html(html_content, source_url): the file is written, or
\* open/write raises, which lines 793-795 catch and report (written =
\* FALSE).  Path.mkdir of line 775 is taken to succeed.
save_debug_html(m, url, written) == EvU("debug", "capture", m, written, "", url)

\* mutant: the structured parse is tried once more after the AI call
parse_html_to_records_retry(m, source_url, ai, written) ==
  IF StructuredParse(m).outcome = "ok"
    THEN [records |-> StructuredParse(m).records,
          events  |-> << Tier1Event("capture", m) >>]
    ELSE [records |-> parse_with_ai_agent(ai),
          events  |-> << Tier1Event("capture", m),
                         save_debug_html(m, source_url, written),
                         AiEvent("capture", m, source_url, ai,
                                 parse_with_ai_agent(ai)),
                         Tier1Event("capture", m) >>]

\* mutant: the 'empty after cleaning' branch goes to the AI parser
\* without save_debug_html
parse_html_to_records_no_debug(m, source_url, ai, written) ==
  IF StructuredParse(m).outcome = "ok"
    THEN [records |-> StructuredParse(m).records,
          events  |-> << Tier1Event("capture", m) >>]
    ELSE [records |-> parse_with_ai_agent(ai),
          events  |-> << Tier1Event("capture", m) >>
                       \o (IF StructuredParse(m).outcome = "empty"
                             THEN <<>>
                             ELSE << save_debug_html(m, source_url, written) >>)
                       \o << AiEvent("capture", m, source_url, ai,
                                     parse_with_ai_agent(ai)) >>]

\* mutant: save_debug_html runs before the structured parse, on every
\* capture
parse_html_to_records_debug_always(m, source_url, ai, written) ==
  IF StructuredParse(m).outcome = "ok"
    THEN [records |-> StructuredParse(m).records,
          events  |-> << save_debug_html(m, source_url, written),
                         Tier1Event("capture", m) >>]
    ELSE [records |-> parse_with_ai_agent(ai),
          events  |-> << save_debug_html(m, source_url, written),
                         Tier1Event("capture", m),
                         AiEvent("capture", m, source_url, ai,
                                 parse_with_ai_agent(ai)) >>]

\* parse_html_to_records: the returned records (None on failure) and the
\* events it causes, for captured markup m from source_url, AI outcome
\* ai and debug file outcome written
parse_html_to_records(m, source_url, ai, written) ==
  IF StructuredParse(m).outcome = "ok"
    THEN [records |-> StructuredParse(m).records,
          events  |-> << Tier1Event("capture", m) >>]
    ELSE [records |-> parse_with_ai_agent(ai),
          events  |-> << Tier1Event("capture", m),
                         save_debug_html(m, source_url, written),
                         AiEvent("capture", m, source_url, ai,
                                 parse_with_ai_agent(ai)) >>]

\* mutant: rowCount counts the header row too
Payload_counts_header(link_obj, parsed_data) ==
  [procurementUrlId |-> link_obj._id,
   sourceUrl        |-> link_obj.procurementLink,
   data             |-> parsed_data,
   rowCount         |-> Len(parsed_data) + 1]

\* the payload save_procurement_data_to_convex hands to client.mutation
Payload(link_obj, parsed_data) ==
  [procurementUrlId |-> link_obj._id,
   sourceUrl        |-> link_obj.procurementLink,
   data             |-> parsed_data,
   rowCount         |-> Len(parsed_data)]

\* ---------------------------------------------------------------------
\* The capture future and the host hook
\* ---------------------------------------------------------------------
NewFuture == [done |-> FALSE, result |-> ""]

\* mutant: on_selection without its future.done() test
on_selection_guard_missing(f) == TRUE

\* on_selection's test before future.set_result
on_selection_guard(f) == ~f.done

\* the in-page selector of one page
\*   flag         window.__playwrightSelectorActive
\*   isActive     the closure variable isActive
\*   listeners    installed (mouseover, click) listener pairs
\*   lastElement  markup of the table enclosing the highlighted element,
\*                "" when nothing is highlighted
NewPage ==
  [exposed |-> FALSE, flag |-> FALSE, isActive |-> FALSE,
   listeners |-> 0, lastElement |-> ""]

\* elements the operator can point at, named by the markup a capture of
\* them yields (target.closest('table') || target).outerHTML
Elements == {"DIV", "EMPTY_TABLE", "BLANK_ROWS", "TX"}

\* markups the operator pastes at the manual prompt
PasteMarkups == {"DIV", "EMPTY_TABLE", "BLANK_ROWS", "TX"}

\* markup a script of the page itself can pass to window.returnHTML
PageMarkups == {"DIV", "TX"}

\* names check_for_verification can report, None as ""
Verifications == {"", "Cloudflare", "reCAPTCHA", "hCaptcha", "DataDome"}

\* ---------------------------------------------------------------------
\* State
\* ---------------------------------------------------------------------
VARIABLES
  pc,             \* where main / process_link / manual_html_fallback stands
  links,          \* main: links
  current_index,  \* main: current_index (None before the first selection)
  last,           \* what the navigator menu last returned to main
  exit_code,      \* value main returned (None while running)
  browser,        \* "none", "open", "closed": the persistent context
  link_query,     \* main: get_links_from_convex "pending", "returned", "raised"
  visits,         \* process_link invocations so far
  pages_created,  \* browser.new_page() calls so far
  open_pages,     \* ids of the pages that are open
  page,           \* in-page selector state of the current page
  verification,   \* process_link: verification_type
  loaded,         \* process_link: how the waits of lines 625-636 ended
  future,         \* process_link: the capture future
  hook_calls,     \* invocations of returnHTML on the current page
  resolutions,    \* markups future.set_result was called with
  attempt,        \* manual_html_fallback: attempt
  errors,         \* manual_html_fallback: errors
  records,        \* manual_html_fallback: records awaiting confirmation
  summary,        \* the error summary manual_html_fallback printed
  log,            \* events of the current process_link invocation
  writes,         \* payloads this invocation handed to client.mutation
  ret,            \* what the last process_link returned
  saved,          \* what its save_procurement_data_to_convex returned
  fragment,       \* tables of a markup handed to the structured parse
  parsed,         \* what the structured parse made of fragment
  ai_call,        \* the AI parser's call for fragment and what it returned
  variant,        \* the script whose SELECTOR_JS the page runs
  banner,         \* scraper.py: the banner's text and its pending timers
  sel_evals,      \* SelectorSpec: evaluations of SELECTOR_JS on the page
  triggers,       \* SelectorSpec: capture triggers on the page so far
  paste_input,    \* InputSpec: the locals of get_manual_html_input
  wait_lookup,    \* WaitSpec: a URL, its wait strategy and goto's policy
  debug_dir       \* DebugSpec: the files of ./debug_html and the calls

vars == <<pc, links, current_index, last, exit_code, browser, visits,
          link_query, pages_created, open_pages, page, verification, loaded,
          future,
          hook_calls, resolutions, attempt, errors, records, summary,
          log, writes, ret, saved, fragment, parsed, ai_call, variant,
          banner, sel_evals, triggers, paste_input, wait_lookup, debug_dir>>

parseVars == <<fragment, parsed, ai_call>>

\* the variables the actions of main and process_link leave alone
unitVars == <<fragment, parsed, ai_call, variant, banner, sel_evals,
              triggers, paste_input, wait_lookup, debug_dir>>

auxVars == <<paste_input, wait_lookup, debug_dir>>

selVars == <<variant, banner, sel_evals, triggers>>

navVars == <<links, link_query, current_index, last, exit_code, browser>>

pageVars == <<pages_created, open_pages, page, verification, loaded, future,
              hook_calls, resolutions>>

manVars == <<attempt, errors, records, summary>>

\* a menu function returned result r to main: it was called at position
\* from and the input of its last pass was choice.  A pass that ends in
\* "again" prints and prompts again inside the function: main's state is
\* as before.
Returned(menu, from, choice, r) ==
  [menu |-> menu, from |-> from, choice |-> choice, result |-> r]

NoLast == Returned("", None, Choice("", 0), Again(""))

NoSummary == [printed |-> FALSE, errors |-> <<>>]

\* get_manual_html_input not called
NoInput ==
  [state |-> "idle", lines |-> <<>>, empty_line_count |-> 0,
   line |-> "", how |-> "", result |-> None]

\* get_wait_strategy not called
NoLookup == [state |-> "idle", url |-> <<>>, wait_strategy |-> None,
             wait_until |-> ""]

\* ./debug_html: the files written, by name, and the calls made
NoFiles == [files |-> {}, calls |-> <<>>]

AuxInit ==
  /\ paste_input = NoInput
  /\ wait_lookup = NoLookup
  /\ debug_dir = NoFiles

\* no structured parse applied yet
NotParsed == [outcome |-> "", records |-> <<>>]

\* parse_with_ai_agent not called yet
NoAiCall ==
  [called |-> FALSE, result |-> [raises |-> FALSE, success |-> FALSE,
                                 data |-> <<>>],
   returned |-> <<>>]

\* the three scripts with a SELECTOR_JS: scraper3.py (click to capture),
\* scraper.py (Ctrl+Alt+S to capture), scraper_tool.py (click to capture)
Variants == {"scraper3", "scraper", "scraper_tool"}

\* the banner of scraper.py before SELECTOR_JS ran: no banner, no timer
\*   text     "none" "ready" "warning" "captured" "removed"
\*   restore  a setTimeout of lines 174-178 is pending
\*   remove   the setTimeout of line 199 is pending
NoBanner == [text |-> "none", restore |-> FALSE, remove |-> FALSE]

Constructed ==
  /\ pc = "start"
  /\ links = <<>>
  /\ link_query = "pending"
  /\ current_index = None
  /\ last = NoLast
  /\ exit_code = None
  /\ browser = "none"
  /\ visits = 0
  /\ pages_created = 0
  /\ open_pages = {}
  /\ page = NewPage
  /\ verification = ""
  /\ loaded = ""
  /\ future = NewFuture
  /\ hook_calls = <<>>
  /\ resolutions = <<>>
  /\ attempt = 0
  /\ errors = <<>>
  /\ records = None
  /\ summary = NoSummary
  /\ log = <<>>
  /\ writes = <<>>
  /\ ret = "none"
  /\ saved = ""

Init ==
  /\ Constructed
  /\ fragment = <<>>
  /\ parsed = NotParsed
  /\ ai_call = NoAiCall
  /\ variant = "scraper3"
  /\ banner = NoBanner
  /\ sel_evals = 0
  /\ triggers = 0
  /\ AuxInit

\* the link main hands to process_link
CurrentLink == links[Get(current_index) + 1]

\* ---------------------------------------------------------------------
\* main: startup and the two navigator menus
\* ---------------------------------------------------------------------
\* mutant: the handler prints and main goes on to the menu
OnLinkError_goes_on == [exit_code |-> None, pc |-> "select"]

\* lines 887-892: the handler of the Link Source query prints the error
\* and main returns 1
OnLinkError == [exit_code |-> Some(1), pc |-> "done"]

\* main, lines 879-895: the Link Source query
FetchLinks ==
  /\ pc = "start"
  /\ \E ok \in BOOLEAN, c \in LinkCollections :
       IF ~ok
         THEN /\ exit_code' = OnLinkError.exit_code
              /\ pc' = OnLinkError.pc
              /\ links' = links
              /\ link_query' = "raised"
         ELSE IF Len(c) = 0
           THEN /\ exit_code' = Some(0)
                /\ pc' = "done"
                /\ links' = c
                /\ link_query' = "returned"
           ELSE /\ exit_code' = exit_code
                /\ pc' = "select"
                /\ links' = c
                /\ link_query' = "returned"
  /\ UNCHANGED <<current_index, last, browser, visits>>
  /\ UNCHANGED <<pageVars, manVars, log, writes, ret, saved>>
  /\ UNCHANGED unitVars

\* main, lines 897-935: one input at get_user_selection(links, None);
\* on "quit" main returns 0, on "goto" the browser context is launched
SelectFirst ==
  /\ pc = "select"
  /\ \E choice \in MenuChoices :
       LET r == get_user_selection(Len(links), None, choice)
       IN  IF r.action = "quit"
             THEN /\ last' = Returned("select", None, choice, r)
                  /\ exit_code' = Some(0)
                  /\ pc' = "done"
                  /\ UNCHANGED <<current_index, browser>>
             ELSE IF r.action = "goto"
               THEN /\ last' = Returned("select", None, choice, r)
                    /\ current_index' = r.index
                    /\ browser' = "open"
                    /\ pc' = "process"
                    /\ exit_code' = exit_code
               ELSE UNCHANGED <<pc, last, current_index, browser, exit_code>>
  /\ UNCHANGED <<links, link_query, visits>>
  /\ UNCHANGED <<pageVars, manVars, log, writes, ret, saved>>
  /\ UNCHANGED unitVars

\* the record of the finished process_link invocation ends when the menu
\* returns to main
VisitOver ==
  /\ log' = <<>>
  /\ summary' = NoSummary
  /\ ret' = "none"
  /\ saved' = ""
  /\ writes' = <<>>

\* mutant: main returns without closing the browser context
BrowserAfterLoop_left_open == "open"

\* line 949: await browser.close() after the loop
BrowserAfterLoop == "closed"

\* main, lines 941-951: one input at get_post_scrape_action; on "quit"
\* the loop breaks, the browser is closed and main returns 0
PostScrape ==
  /\ pc = "menu"
  /\ \E choice \in MenuChoices :
       LET r == get_post_scrape_action(Len(links), Get(current_index), choice)
       IN  IF r.action = "quit"
             THEN /\ last' = Returned("post", current_index, choice, r)
                  /\ browser' = BrowserAfterLoop
                  /\ exit_code' = Some(0)
                  /\ pc' = "done"
                  /\ current_index' = current_index
                  /\ VisitOver
             ELSE IF r.action = "goto"
               THEN /\ visits < MaxVisits
                    /\ last' = Returned("post", current_index, choice, r)
                    /\ current_index' = r.index
                    /\ pc' = "process"
                    /\ UNCHANGED <<browser, exit_code>>
                    /\ VisitOver
               ELSE UNCHANGED <<pc, last, current_index, browser, exit_code,
                                log, summary, ret, saved, writes>>
  /\ UNCHANGED <<links, link_query, visits>>
  /\ UNCHANGED <<pageVars, attempt, errors, records>>
  /\ UNCHANGED unitVars

\* ---------------------------------------------------------------------
\* process_link
\* ---------------------------------------------------------------------
\* mutant: the mutation is sent a second time
Save_retried(link_obj, parsed_data) ==
  << Payload(link_obj, parsed_data), Payload(link_obj, parsed_data) >>

\* save_procurement_data_to_convex: the payloads handed to
\* client.mutation by one call
Save(link_obj, parsed_data) == << Payload(link_obj, parsed_data) >>

\* what save_procurement_data_to_convex returns: the id, or None when
\* the mutation raised (caught and logged, lines 139-141)
SaveResult(stored) == IF stored THEN "id" ELSE "None"

\* mutant: the page of the previous invocation is handed out again
new_page_reuses(n) == IF n = 0 THEN 1 ELSE n

\* line 619, browser.new_page(): the id of the page it returns when n
\* pages were created before
new_page(n) == n + 1

\* mutant: the page is left open
ClosePage_missing(pages) == pages

\* page.close() of the page of this invocation
ClosePage(pages) == pages \ {pages_created}

\* process_link returns result: its page is closed, its locals die
PLReturn(result, evs, ws, sm, sv) ==
  /\ ret' = result
  /\ saved' = sv
  /\ pc' = "menu"
  /\ log' = log \o evs \o [i \in 1..Len(ws) |-> Ev("write", "", "")]
  /\ writes' = writes \o ws
  /\ summary' = sm
  /\ open_pages' = ClosePage(open_pages)
  /\ page' = NewPage
  /\ verification' = ""
  /\ loaded' = ""
  /\ future' = NewFuture
  /\ hook_calls' = <<>>
  /\ resolutions' = <<>>
  /\ attempt' = 0
  /\ errors' = <<>>
  /\ records' = None
  /\ UNCHANGED pages_created

\* lines 599-620: the URL test, then a fresh page for this link
ProcessLinkBegin ==
  /\ pc = "process"
  /\ visits' = visits + 1
  /\ last' = NoLast
  /\ IF CurrentLink.procurementLink = ""
       THEN /\ ret' = "False"
            /\ pc' = "menu"
            /\ UNCHANGED <<pages_created, open_pages>>
       ELSE /\ ret' = "none"
            /\ pc' = "goto"
            /\ pages_created' = new_page(pages_created)
            /\ open_pages' = open_pages \cup {new_page(pages_created)}
  /\ log' = <<>>
  /\ summary' = NoSummary
  /\ page' = NewPage
  /\ UNCHANGED <<links, link_query, current_index, exit_code, browser>>
  /\ UNCHANGED <<verification, loaded, future, hook_calls, resolutions>>
  /\ saved' = ""
  /\ UNCHANGED <<attempt, errors, records, writes>>
  /\ UNCHANGED unitVars

\* mutant: the expiry of the network-idle wait reaches the outer handler
NavFails_on_idle(nav) == nav # "ok"

\* lines 631-641: what the network-idle wait raises is passed over; what
\* page.goto raises reaches the handler that closes the page
NavFails(nav) == nav = "error"

\* mutant: a detected challenge makes process_link give the link up
AfterVerification_skips(v) == IF v = "" THEN "step1" ELSE "menu"

\* lines 655-671: whatever check_for_verification returned, the next
\* thing process_link does is the STEP 1 prompt
AfterVerification(v) == "step1"

\* lines 622-663: navigation, the network-idle wait, diagnostics and
\* check_for_verification
\*   nav  "ok"            page.goto and the network-idle wait returned
\*        "idle_timeout"  the network-idle wait timed out (ignored)
\*        "error"         page.goto raised
Navigate ==
  /\ pc = "goto"
  /\ \E nav \in {"ok", "idle_timeout", "error"}, v \in Verifications :
       IF NavFails(nav)
         THEN PLReturn("False", << EvR("nav_error", "", "", FALSE, nav) >>,
                       <<>>, NoSummary, "")
         ELSE /\ pc' = AfterVerification(v)
              /\ verification' = v
              /\ loaded' = nav
              /\ UNCHANGED <<pages_created, open_pages, page, future,
                             hook_calls, resolutions>>
              /\ UNCHANGED <<manVars, log, writes, ret, saved>>
  /\ UNCHANGED <<navVars, visits>>
  /\ UNCHANGED unitVars

\* mutant: the answer 's' is taken for a capture that succeeded
OnSkip_true == "True"

\* lines 674-677: what process_link returns on the answer 's'
OnSkip == "False"

\* mutant: the hook is not exposed before the selector is injected
expose_function_missing(p) == p

\* line 699: page.expose_function("returnHTML", on_selection) returned
expose_function(p) == [p EXCEPT !.exposed = TRUE]

\* lines 665-703: the STEP 1 prompt, the future, page.expose_function
Step1 ==
  /\ pc = "step1"
  /\ \E skip_choice \in {"", "s", "x"}, exposed \in BOOLEAN :
       IF skip_choice = "s"
         THEN PLReturn(OnSkip, << Ev("skip", "", "") >>, <<>>, NoSummary, "")
       ELSE IF ~exposed
         THEN PLReturn("False", << Ev("expose_error", "", "") >>, <<>>,
                       NoSummary, "")
         ELSE /\ pc' = "inject"
              /\ future' = NewFuture
              /\ page' = expose_function(page)
              /\ verification' = ""
              /\ loaded' = ""
              /\ UNCHANGED <<pages_created, open_pages, hook_calls,
                             resolutions>>
              /\ UNCHANGED <<manVars, log, writes, ret, saved>>
  /\ UNCHANGED <<navVars, visits>>
  /\ UNCHANGED unitVars

\* mutant: the script installs its listeners without testing the flag
SelectorJs_unguarded(p) ==
  [p EXCEPT !.flag = TRUE, !.isActive = TRUE,
            !.listeners = p.listeners + 1, !.lastElement = ""]

\* SELECTOR_JS, lines 276-381: one evaluation on page state p
SelectorJs(p) ==
  IF p.flag THEN p
  ELSE [p EXCEPT !.flag = TRUE, !.isActive = TRUE,
                 !.listeners = p.listeners + 1, !.lastElement = ""]

\* lines 705-717: page.evaluate(SELECTOR_JS)
Inject ==
  /\ pc = "inject"
  /\ \E injected \in BOOLEAN :
       IF ~injected
         THEN PLReturn("False", << Ev("inject_error", "", "") >>, <<>>,
                       NoSummary, "")
         ELSE /\ pc' = "await"
              /\ page' = SelectorJs(page)
              /\ UNCHANGED <<pages_created, open_pages, verification,
                             loaded, future, hook_calls, resolutions>>
              /\ UNCHANGED <<manVars, log, writes, ret, saved>>
  /\ UNCHANGED <<navVars, visits>>
  /\ UNCHANGED unitVars

\* on_selection, lines 693-695, called with markup m by caller by
OnSelection(m, by) ==
  /\ hook_calls' = Append(hook_calls, [m |-> m, by |-> by])
  /\ IF on_selection_guard(future)
       THEN /\ future' = [done |-> TRUE, result |-> m]
            /\ resolutions' = Append(resolutions, m)
       ELSE UNCHANGED <<future, resolutions>>

\* mouseOverHandler, lines 340-347 (scraper.py lines 151-158), on page
\* state p; target "banner" is the banner
mouseOverHandler(p, target) ==
  IF ~p.isActive \/ target = "banner"
    THEN p
    ELSE [p EXCEPT !.lastElement = target]

\* a mouseover event on the page of process_link
MouseOver ==
  /\ pc = "await"
  /\ page.listeners > 0
  /\ \E target \in Elements \cup {"banner"} :
       page' = mouseOverHandler(page, target)
  /\ UNCHANGED <<pc, pages_created, open_pages, verification, loaded, future,
                 hook_calls, resolutions>>
  /\ UNCHANGED <<navVars, visits, manVars, log, writes, ret, saved>>
  /\ UNCHANGED unitVars

\* mutant: the handler leaves its listeners installed and stays active
Deactivated_not(p) == p

\* the cleanup of a capture: lines 357-360 (scraper.py lines 183-185,
\* scraper_tool.py lines 120-121); a script without isActive or without
\* the page-global flag holds FALSE there all along
Deactivated(p) ==
  [p EXCEPT !.isActive = FALSE, !.flag = FALSE,
            !.listeners = p.listeners - 1]

\* what a handler did: the page state it left and the markup it passed
\* to window.returnHTML (None: no call)
Handled(p, sent) == [page |-> p, sent |-> sent]

\* clickHandler, lines 349-376, on page state p
clickHandler(p, target) ==
  IF ~p.isActive \/ target = "banner" \/ p.lastElement = ""
    THEN Handled(p, None)
    ELSE Handled(Deactivated(p), << p.lastElement >>)

\* a click on the page of process_link
Click ==
  /\ pc = "await"
  /\ page.listeners > 0
  /\ \E target \in {"element", "banner"} :
       LET r == clickHandler(page, target)
       IN  IF r.sent = None
             THEN UNCHANGED <<page, future, hook_calls, resolutions>>
             ELSE /\ page' = r.page
                  /\ OnSelection(r.sent[1], "selector")
  /\ UNCHANGED <<pc, pages_created, open_pages, verification, loaded>>
  /\ UNCHANGED <<navVars, visits, manVars, log, writes, ret, saved>>
  /\ UNCHANGED unitVars

\* window.returnHTML called by another script of the page: the binding
\* is visible to every script once page.expose_function has returned
PageCallsHook ==
  /\ pc \in {"inject", "await"}
  /\ page.exposed
  /\ Len(hook_calls) < MaxHookCalls
  /\ \E m \in PageMarkups : OnSelection(m, "page")
  /\ UNCHANGED <<pc, pages_created, open_pages, page, verification, loaded>>
  /\ UNCHANGED <<navVars, visits, manVars, log, writes, ret, saved>>
  /\ UNCHANGED unitVars

\* mutant: whatever the parse returned is written
HasData_always(parsed_data) == TRUE

\* lines 725 and 742, if parsed_data: a non-empty list of records
HasData(parsed_data) == parsed_data # None

\* mutant: the await is given a timeout and returns when it expires
AwaitReturns_on_timeout(f) == TRUE

\* line 720, html_data = await future: the await returns when the future
\* has a result; it has no timeout
AwaitReturns(f) == f.done

\* lines 719-738: the await on the future returns, the captured markup
\* goes through parse_html_to_records; records are saved, or manual
\* paste is offered.  The handler of lines 752-769 runs only when a call
\* of lines 720-750 raises: parse_html_to_records, parse_with_ai_agent
\* and save_procurement_data_to_convex catch what their calls raise, and
\* the display calls (pd.DataFrame, to_markdown, print, input) raise on
\* none of the inputs modelled here.
Captured ==
  /\ pc = "await"
  /\ AwaitReturns(future)
  /\ \E ai \in IF StructuredParse(future.result).outcome = "ok"
                 THEN {AiResult(FALSE, FALSE, <<>>)} ELSE AiResults,
        written \in IF StructuredParse(future.result).outcome = "ok"
                      THEN {TRUE} ELSE BOOLEAN :
       LET r == parse_html_to_records(future.result,
                                      CurrentLink.procurementLink, ai, written)
       IN  IF HasData(r.records)
             THEN \E stored \in BOOLEAN :
                    PLReturn("True", r.events,
                             Save(CurrentLink, r.records), NoSummary,
                             SaveResult(stored))
             ELSE /\ pc' = "manual_choice"
                  /\ log' = log \o r.events
                                \o << Ev("offer", "capture", future.result) >>
                  /\ hook_calls' = <<>>
                  /\ resolutions' = <<>>
                  /\ UNCHANGED <<pages_created, open_pages, page,
                                 verification, loaded, future>>
                  /\ UNCHANGED <<manVars, writes, ret, saved>>
  /\ UNCHANGED <<navVars, visits>>
  /\ UNCHANGED unitVars

\* lines 736-750: the answer to 'Manually paste HTML? [y/n]'
ManualChoice ==
  /\ pc = "manual_choice"
  /\ \E manual_choice \in {"y", "n"} :
       IF manual_choice = "y"
         THEN /\ pc' = "m_paste"
              /\ attempt' = 1
              /\ errors' = <<>>
              /\ UNCHANGED <<records, summary, pageVars, log, writes, ret, saved>>
         ELSE PLReturn("False", <<>>, <<>>, NoSummary, "")
  /\ UNCHANGED <<navVars, visits>>
  /\ UNCHANGED unitVars

\* ---------------------------------------------------------------------
\* manual_html_fallback (called from process_link line 741; its return
\* is followed by lines 742-750 of process_link)
\* ---------------------------------------------------------------------
Err(a, reason) == [attempt |-> a, reason |-> reason]

\* mutant: range(1, max_retries + 2)
HasNextAttempt_one_more(a) == a <= max_retries

\* for attempt in range(1, max_retries + 1): is there an attempt after a
HasNextAttempt(a) == a < max_retries

\* mutant: 'Try again?' is asked after the last attempt too
AsksRetry_on_last(a) == a <= max_retries

\* the 'if attempt < max_retries' before each 'Try again?' prompt
AsksRetry(a) == a < max_retries

\* mutant: every failed parse of a paste calls the AI parser
HandlerCallsAi_any_failure(outcome) == outcome # "ok"

\* the except ValueError handler, lines 558-571, is the one that calls
\* parse_with_ai_agent (which raises nothing: lines 569-571 never run);
\* the handler of lines 578-586 runs on none of the inputs modelled here
HandlerCallsAi(outcome) == outcome = "value_error"

ErrorMessage(outcome) ==
  CASE outcome = "value_error" -> "pandas parsing error"
    [] outcome = "no_tables"   -> "No HTML tables found in pasted content"
    [] outcome = "empty"       -> "Table is empty after cleaning"

\* the loop is over without records: lines 588-596, then 748-750
ManualFail(errs, evs) ==
  PLReturn("False", evs \o << Ev("summary", "paste", "") >>, <<>>,
           [printed |-> TRUE, errors |-> errs], "")

\* manual_html_fallback returned recs: 'if parsed_data', lines 742-750
ManualSuccess(recs, evs, stored) ==
  IF HasData(recs)
    THEN PLReturn("True", evs,
                  Save(CurrentLink, recs), NoSummary, SaveResult(stored))
    ELSE PLReturn("False", evs, <<>>, NoSummary, "")

\* a failed parse of the pasted markup: the reason is recorded, then
\* 'Try again?' is asked if an attempt is left, else the loop is over
FailedAttempt(errs, evs, inp) ==
  IF AsksRetry(attempt)
    THEN /\ pc' = "m_retry"
         /\ errors' = errs
         /\ log' = log \o evs \o << Ev("retry", "paste", inp) >>
         /\ UNCHANGED <<attempt, records, summary, pageVars, writes, ret,
                        saved>>
    ELSE IF HasNextAttempt(attempt)
      THEN /\ pc' = "m_paste"
           /\ attempt' = attempt + 1
           /\ errors' = errs
           /\ log' = log \o evs
           /\ UNCHANGED <<records, summary, pageVars, writes, ret, saved>>
      ELSE ManualFail(errs, evs)

\* lines 496-547 and 558-576: one paste.  inp is what
\* get_manual_html_input returned, "" for None
ManualPasteOf(inp) ==
  /\ pc = "m_paste"
  /\   LET paste == << Ev("paste", "paste", inp) >>
       IN
       IF inp = ""
         THEN PLReturn("False", paste, <<>>, NoSummary, "")
         ELSE
           LET sp   == StructuredParse(inp)
               evs  == paste \o << Tier1Event("paste", inp) >>
               errs == Append(errors, Err(attempt, ErrorMessage(sp.outcome)))
           IN
           IF sp.outcome = "ok"
             THEN /\ pc' = "m_confirm"
                  /\ records' = sp.records
                  /\ log' = log \o evs \o << Ev("preview", "paste", inp) >>
                  /\ UNCHANGED <<attempt, errors, summary, pageVars,
                                 writes, ret, saved>>
             ELSE IF HandlerCallsAi(sp.outcome)
               THEN \E ai \in AiResults :
                      LET res  == parse_with_ai_agent(ai)
                          aiev == evs \o << AiEvent("paste", inp,
                                              CurrentLink.procurementLink,
                                              ai, res) >>
                      IN  IF res # None
                            THEN \E stored \in BOOLEAN :
                                   ManualSuccess(res, aiev, stored)
                            ELSE FailedAttempt(errs, aiev, inp)
               ELSE FailedAttempt(errs, evs, inp)

ManualPaste ==
  /\ \E inp \in PasteMarkups \cup {""} : ManualPasteOf(inp)
  /\ UNCHANGED <<navVars, visits>>
  /\ UNCHANGED unitVars

\* the answer to 'Try again? [y/n]' (lines 516, 532, 574)
ManualRetry ==
  /\ pc = "m_retry"
  /\ \E retry \in {"y", "n", ""} :
       IF retry # "y"
         THEN ManualFail(errors, <<>>)
         ELSE IF HasNextAttempt(attempt)
           THEN /\ pc' = "m_paste"
                /\ attempt' = attempt + 1
                /\ UNCHANGED <<errors, records, summary, pageVars, log,
                               writes, ret, saved>>
           ELSE ManualFail(errors, <<>>)
  /\ UNCHANGED <<navVars, visits>>
  /\ UNCHANGED unitVars

\* mutant: a rejected preview records no reason
Rejected_unrecorded(errs, a) == errs

\* line 553: a rejected preview is recorded as the reason of its attempt
Rejected(errs, a) == Append(errs, Err(a, "User rejected parsed data"))

\* mutant: the answer to the preview is not looked at
Confirmed_whatever(confirm) == TRUE

\* line 551: the preview is confirmed
Confirmed(confirm) == confirm = "y"

\* the answer to 'Does this look correct? [y/n]' (lines 549-556)
ManualConfirm ==
  /\ pc = "m_confirm"
  /\ \E confirm \in {"y", "n"} :
       LET answer == << EvR("confirm", "paste", "", confirm = "y", confirm) >>
       IN
       IF Confirmed(confirm)
         THEN \E stored \in BOOLEAN : ManualSuccess(records, answer, stored)
         ELSE
           LET errs == Rejected(errors, attempt)
           IN  IF HasNextAttempt(attempt)
                 THEN /\ pc' = "m_paste"
                      /\ attempt' = attempt + 1
                      /\ errors' = errs
                      /\ records' = None
                      /\ log' = log \o answer
                      /\ UNCHANGED <<summary, pageVars, writes, ret, saved>>
                 ELSE ManualFail(errs, answer)
  /\ UNCHANGED <<navVars, visits>>
  /\ UNCHANGED unitVars

\* ---------------------------------------------------------------------
\* Specification
\* ---------------------------------------------------------------------
Next ==
  \/ FetchLinks
  \/ SelectFirst
  \/ PostScrape
  \/ ProcessLinkBegin
  \/ Navigate
  \/ Step1
  \/ Inject
  \/ MouseOver
  \/ Click
  \/ PageCallsHook
  \/ Captured
  \/ ManualChoice
  \/ ManualPaste
  \/ ManualRetry
  \/ ManualConfirm

Spec == Init /\ [][Next]_vars

\* ---------------------------------------------------------------------
\* The structured parse on its own: lines 839-863 of
\* parse_html_to_records applied to one fragment
\* ---------------------------------------------------------------------
ParseInit ==
  /\ Constructed
  /\ fragment \in Fragments
  /\ parsed = NotParsed
  /\ ai_call = NoAiCall
  /\ variant = "scraper3"
  /\ banner = NoBanner
  /\ sel_evals = 0
  /\ triggers = 0
  /\ AuxInit

ParseFragment ==
  /\ parsed = NotParsed
  /\ parsed' = StructuredParseOf(fragment)
  /\ UNCHANGED <<pc, navVars, visits, pageVars, manVars, log, writes, ret,
                 saved, fragment, ai_call, selVars, auxVars>>

\* lines 843-845, 853-855, 865-872: the structured parse failed and
\* parse_html_to_records returns what parse_with_ai_agent returns
AiFallback ==
  /\ parsed.outcome \in {"value_error", "no_tables", "empty"}
  /\ ~ai_call.called
  /\ \E ai \in AiResults :
       ai_call' = [called |-> TRUE, result |-> ai,
                   returned |-> parse_with_ai_agent(ai)]
  /\ UNCHANGED <<pc, navVars, visits, pageVars, manVars, log, writes, ret,
                 saved, fragment, parsed, selVars, auxVars>>

ParseNext ==
  \/ ParseFragment
  \/ AiFallback

ParseSpec == ParseInit /\ [][ParseNext]_vars

\* ---------------------------------------------------------------------
\* The navigator on its own: main's loop with every pass of the two menu
\* loops a step of its own (last holds the input and the outcome of the
\* latest pass, returned or not) and process_link, which assigns neither
\* links nor current_index, left out
\* ---------------------------------------------------------------------
\* one pass of the while loop of get_user_selection(links, None)
NavSelectPass ==
  /\ pc = "select"
  /\ \E choice \in MenuChoices :
       LET r == get_user_selection(Len(links), current_index, choice)
       IN  /\ last' = Returned("select", current_index, choice, r)
           /\ IF r.action = "quit"
                THEN /\ exit_code' = Some(0)
                     /\ pc' = "done"
                     /\ UNCHANGED <<current_index, browser>>
                ELSE IF r.action = "goto"
                  THEN /\ current_index' = r.index
                       /\ browser' = "open"
                       /\ pc' = "menu"
                       /\ exit_code' = exit_code
                  ELSE UNCHANGED <<pc, current_index, browser, exit_code>>
  /\ UNCHANGED <<links, link_query, visits, pageVars, manVars, log, writes, ret,
                 saved>>
  /\ UNCHANGED unitVars

\* one pass of the while loop of get_post_scrape_action(links,
\* current_index)
NavPostPass ==
  /\ pc = "menu"
  /\ \E choice \in MenuChoices :
       LET r == get_post_scrape_action(Len(links), Get(current_index), choice)
       IN  /\ last' = Returned("post", current_index, choice, r)
           /\ IF r.action = "quit"
                THEN /\ browser' = BrowserAfterLoop
                     /\ exit_code' = Some(0)
                     /\ pc' = "done"
                     /\ current_index' = current_index
                ELSE IF r.action = "goto"
                  THEN /\ current_index' = r.index
                       /\ UNCHANGED <<pc, browser, exit_code>>
                  ELSE UNCHANGED <<pc, current_index, browser, exit_code>>
  /\ UNCHANGED <<links, link_query, visits, pageVars, manVars, log, writes, ret,
                 saved>>
  /\ UNCHANGED unitVars

NavNext ==
  \/ FetchLinks
  \/ NavSelectPass
  \/ NavPostPass

NavSpec == Init /\ [][NavNext]_vars

\* ---------------------------------------------------------------------
\* The in-page selector on its own: SELECTOR_JS of one of the three
\* scripts on one page whose hook is exposed, under every sequence of
\* evaluations, pointer moves, capture triggers and timer expiries.
\*   scraper3.py      click to capture, page-global flag, isActive
\*   scraper.py       Ctrl+Alt+S to capture, isActive, banner timers
\*   scraper_tool.py  click to capture, no flag, no isActive, no banner
\* ---------------------------------------------------------------------
\* scraper.py lines 80-207 and scraper_tool.py lines 88-134: one
\* evaluation of a SELECTOR_JS that has no page-global flag
SelectorJsNoFlag(v, p) ==
  [p EXCEPT !.isActive = (v = "scraper"),
            !.listeners = p.listeners + 1, !.lastElement = ""]

\* one evaluation of the SELECTOR_JS of variant v
Evaluated(v, p) ==
  IF v = "scraper3" THEN SelectorJs(p) ELSE SelectorJsNoFlag(v, p)

\* scraper_tool.py lines 106-110: mouseOverHandler has no test
mouseOverHandlerTool(p, target) == [p EXCEPT !.lastElement = target]

\* scraper_tool.py lines 113-130: clickHandler captures event.target
clickHandlerTool(p, target) == Handled(Deactivated(p), << target >>)

\* mutant: the hotkey captures whether or not an element is highlighted
HotkeyCaptures_always(p) == TRUE

\* scraper.py line 169, if (!lastElement): the hotkey captures only
\* when an element is highlighted
HotkeyCaptures(p) == p.lastElement # ""

\* scraper.py lines 161-204: keydownHandler on Ctrl+Alt+S
keydownHandler(p) ==
  IF ~p.isActive THEN Handled(p, None)
  ELSE IF ~HotkeyCaptures(p) THEN Handled(p, None)
  ELSE Handled(Deactivated(p), << p.lastElement >>)

\* scraper.py lines 169-200: what keydownHandler does to the banner
keydownBanner(p, b) ==
  IF ~p.isActive THEN b
  ELSE IF ~HotkeyCaptures(p)
    THEN [b EXCEPT !.text = "warning", !.restore = TRUE]
    ELSE [b EXCEPT !.text = "captured", !.remove = TRUE]

\* the page of one link after page.expose_function, before
\* page.evaluate(SELECTOR_JS)
SelInit ==
  /\ pc = "inject"
  /\ links = << Link(1, "https://x") >>
  /\ link_query = "returned"
  /\ current_index = Some(0)
  /\ last = NoLast
  /\ exit_code = None
  /\ browser = "open"
  /\ visits = 1
  /\ pages_created = 1
  /\ open_pages = {1}
  /\ page = [NewPage EXCEPT !.exposed = TRUE]
  /\ verification = ""
  /\ loaded = ""
  /\ future = NewFuture
  /\ hook_calls = <<>>
  /\ resolutions = <<>>
  /\ attempt = 0
  /\ errors = <<>>
  /\ records = None
  /\ summary = NoSummary
  /\ log = <<>>
  /\ writes = <<>>
  /\ ret = "none"
  /\ saved = ""
  /\ fragment = <<>>
  /\ parsed = NotParsed
  /\ ai_call = NoAiCall
  /\ variant \in Variants
  /\ banner = NoBanner
  /\ sel_evals = 0
  /\ triggers = 0
  /\ AuxInit

\* what no step of the selector touches
selFrame ==
  <<navVars, visits, pages_created, open_pages, verification, loaded,
    manVars, log, writes, ret, saved, parseVars, variant, auxVars>>

\* page.evaluate(SELECTOR_JS): process_link evaluates it once per page
\* (line 707; scraper.py line 252; scraper_tool.py line 169); the script
\* of scraper3.py, which tests the page-global flag, is also evaluated
\* again on the same page
SelEvaluate ==
  /\ pc \in {"inject", "await"}
  /\ sel_evals < MaxEvaluations
  /\ variant = "scraper3" \/ sel_evals = 0
  /\ sel_evals' = sel_evals + 1
  /\ pc' = "await"
  /\ page' = Evaluated(variant, page)
  /\ banner' = IF variant = "scraper"
                 THEN [banner EXCEPT !.text = "ready"] ELSE banner
  /\ UNCHANGED <<future, hook_calls, resolutions, triggers>>
  /\ UNCHANGED selFrame

\* a mouseover event while a mouseover listener is installed
SelMouseOver ==
  /\ pc = "await"
  /\ page.listeners > 0
  /\ \E target \in Elements \cup {"banner"} :
       /\ variant = "scraper_tool" => target # "banner"
       /\ page' = IF variant = "scraper_tool"
                    THEN mouseOverHandlerTool(page, target)
                    ELSE mouseOverHandler(page, target)
  /\ UNCHANGED <<pc, future, hook_calls, resolutions, banner, sel_evals,
                 triggers>>
  /\ UNCHANGED selFrame

\* the capture trigger of the variant: a click (on an element or on the
\* banner), or Ctrl+Alt+S.  With no listener installed no handler runs.
SelTrigger ==
  /\ pc = "await"
  /\ triggers < MaxTriggers
  /\ triggers' = triggers + 1
  /\ \E target \in Elements \cup {"banner"} :
       /\ variant = "scraper" => target = "banner"
       /\ variant = "scraper_tool" => target # "banner"
       /\ LET r == IF page.listeners = 0 THEN Handled(page, None)
                   ELSE IF variant = "scraper3"
                     THEN clickHandler(page, target)
                   ELSE IF variant = "scraper"
                     THEN keydownHandler(page)
                   ELSE clickHandlerTool(page, target)
          IN  /\ page' = r.page
              /\ IF r.sent = None
                   THEN UNCHANGED <<future, hook_calls, resolutions>>
                   ELSE OnSelection(r.sent[1], "selector")
  /\ banner' = IF variant = "scraper" /\ page.listeners > 0
                 THEN keydownBanner(page, banner) ELSE banner
  /\ UNCHANGED <<pc, sel_evals>>
  /\ UNCHANGED selFrame

\* scraper.py: a pending timer expires.  The restore timer (lines
\* 174-178) puts the ready text back; the remove timer (line 199)
\* removes the banner.
SelTimer ==
  /\ pc = "await"
  /\ \/ /\ banner.restore
        /\ banner' = [banner EXCEPT
                        !.restore = FALSE,
                        !.text = IF banner.text = "removed"
                                   THEN "removed" ELSE "ready"]
     \/ /\ banner.remove
        /\ banner' = [banner EXCEPT !.remove = FALSE, !.text = "removed"]
  /\ UNCHANGED <<pc, page, future, hook_calls, resolutions, sel_evals,
                 triggers>>
  /\ UNCHANGED selFrame

SelNext ==
  \/ SelEvaluate
  \/ SelMouseOver
  \/ SelTrigger
  \/ SelTimer

SelectorSpec == SelInit /\ [][SelNext]_vars

\* ---------------------------------------------------------------------
\* get_manual_html_input (lines 444-489) read line by line, and the call
\* of it in manual_html_fallback (lines 501-505)
\* ---------------------------------------------------------------------
\* the lines input() gives; TableLine is one line holding the markup "TX"
TableLine == "<table>"

InputLines == {"", " ", "skip", " SKIP ", TableLine}

\* line.strip().lower()
strip_lower(line) ==
  CASE line = " SKIP " -> "skip"
    [] line = " "      -> ""
    [] OTHER           -> line

\* str.lstrip() and str.rstrip() on the texts a line can become
lstrip(line) ==
  CASE line = " SKIP " -> "SKIP "
    [] line = " "      -> ""
    [] OTHER           -> line

rstrip(line) ==
  CASE line = " SKIP " -> " SKIP"
    [] line = "SKIP "  -> "SKIP"
    [] line = " "      -> ""
    [] OTHER           -> line

\* "\n".join(lines).strip(), as the lines of the text: the blank lines
\* at both ends go, and the blanks at the ends of the text
join_strip(lines) ==
  LET full == {i \in Indices(lines) : strip_lower(lines[i]) # ""}
  IN  IF full = {} THEN <<>>
      ELSE LET lo == CHOOSE i \in full : \A k \in full : i <= k
               hi == CHOOSE i \in full : \A k \in full : k <= i
           IN  [i \in 1..(hi - lo + 1) |->
                  LET l == lines[lo + i - 1]
                      a == IF i = 1 THEN lstrip(l) ELSE l
                  IN  IF i = hi - lo + 1 THEN rstrip(a) ELSE a]

\* the function when entered: lines = [], empty_line_count = 0
Entered ==
  [state |-> "reading", lines |-> <<>>, empty_line_count |-> 0,
   line |-> "", how |-> "", result |-> None]

\* return None at the 'skip' test (line 465) or in the KeyboardInterrupt
\* handler (line 480)
ReturnNone(st, how) ==
  [st EXCEPT !.state = "returned", !.how = how, !.result = None]

\* lines 482-489, reached by a break: the text, or None when it is empty
ReturnContent(st) ==
  [st EXCEPT !.state = "returned", !.how = "end",
             !.result = IF join_strip(st.lines) = <<>>
                          THEN None
                          ELSE Some(join_strip(st.lines))]

\* mutant: 'skip' cancels wherever it is typed
IsSkip_anywhere(line, lines) == strip_lower(line) = "skip"

\* line 464: line.strip().lower() == "skip" and not lines
IsSkip(line, lines) == strip_lower(line) = "skip" /\ lines = <<>>

\* one pass of the loop body (lines 461-474) on the line read
LoopBody(st0, line) ==
  LET st == [st0 EXCEPT !.line = line]
  IN  IF IsSkip(line, st.lines)
        THEN ReturnNone(st, "skip")
      ELSE IF line = ""
        THEN IF st.empty_line_count + 1 >= 2
               THEN ReturnContent(
                      [st EXCEPT !.empty_line_count = st.empty_line_count + 1])
               ELSE [st EXCEPT !.empty_line_count = st.empty_line_count + 1,
                               !.lines = Append(st.lines, line)]
        ELSE [st EXCEPT !.empty_line_count = 0,
                        !.lines = Append(st.lines, line)]

\* the call in progress, or a new one (line 501)
Reading == IF paste_input.state = "reading" THEN paste_input ELSE Entered

inputFrame ==
  <<navVars, visits, pageVars, manVars, log, writes, ret, saved,
    parseVars, selVars, wait_lookup, debug_dir>>

\* input() returns a line
InputLine ==
  /\ pc = "m_paste"
  /\ paste_input.state # "returned"
  /\ Len(Reading.lines) < MaxInputLines
  /\ \E line \in InputLines : paste_input' = LoopBody(Reading, line)
  /\ UNCHANGED <<pc, inputFrame>>

\* input() raises EOFError (line 476)
InputEOF ==
  /\ pc = "m_paste"
  /\ paste_input.state # "returned"
  /\ paste_input' = ReturnContent(Reading)
  /\ UNCHANGED <<pc, inputFrame>>

\* Ctrl+C during input() (lines 478-480)
InputInterrupt ==
  /\ pc = "m_paste"
  /\ paste_input.state # "returned"
  /\ paste_input' = ReturnNone(Reading, "interrupt")
  /\ UNCHANGED <<pc, inputFrame>>

\* the markup a pasted text amounts to: the table of a TableLine when it
\* holds one, no table otherwise; "" for None
MarkupOf(result) ==
  IF result = None THEN ""
  ELSE IF \E i \in Indices(Get(result)) : Get(result)[i] = TableLine
    THEN "TX"
    ELSE "DIV"

\* get_manual_html_input has returned: manual_html_fallback goes on with
\* what it returned (lines 501-576)
InputReturned ==
  /\ paste_input.state = "returned"
  /\ ManualPasteOf(MarkupOf(paste_input.result))
  /\ paste_input' = [paste_input EXCEPT !.state = "idle"]
  /\ UNCHANGED <<navVars, visits, parseVars, selVars, wait_lookup,
                 debug_dir>>

\* a first paste attempt after a capture of markup without a table
InputInit ==
  /\ pc = "m_paste"
  /\ links = << Link(1, "https://x") >>
  /\ link_query = "returned"
  /\ current_index = Some(0)
  /\ last = NoLast
  /\ exit_code = None
  /\ browser = "open"
  /\ visits = 1
  /\ pages_created = 1
  /\ open_pages = {1}
  /\ page = [exposed |-> TRUE, flag |-> TRUE, isActive |-> TRUE,
             listeners |-> 1, lastElement |-> ""]
  /\ verification = ""
  /\ loaded = ""
  /\ future = [done |-> TRUE, result |-> "DIV"]
  /\ hook_calls = <<>>
  /\ resolutions = <<>>
  /\ attempt = 1
  /\ errors = <<>>
  /\ records = None
  /\ summary = NoSummary
  /\ log = << Tier1Event("capture", "DIV"),
              save_debug_html("DIV", "https://x", FALSE),
              AiEvent("capture", "DIV", "https://x",
                      AiResult(FALSE, FALSE, <<>>), None),
              Ev("offer", "capture", "DIV") >>
  /\ writes = <<>>
  /\ ret = "none"
  /\ saved = ""
  /\ fragment = <<>>
  /\ parsed = NotParsed
  /\ ai_call = NoAiCall
  /\ variant = "scraper3"
  /\ banner = NoBanner
  /\ sel_evals = 0
  /\ triggers = 0
  /\ AuxInit

InputNext ==
  \/ InputLine
  \/ InputEOF
  \/ InputInterrupt
  \/ InputReturned
  \/ ManualRetry

InputSpec == InputInit /\ [][InputNext]_vars

\* ---------------------------------------------------------------------
\* get_wait_strategy (lines 45-56) and the policy page.goto is given
\* (lines 614-628).  A URL is the sequence of its characters.
\* ---------------------------------------------------------------------
\* LINK_WAIT_STRATEGIES, in the order of the dict literal
LINK_WAIT_STRATEGIES ==
  << [pattern  |-> <<"o", "p", "e", "n", "g", "o", "v">>,
      strategy |-> "networkidle"] >>

\* str.lower() on one character
LowerChar(c) ==
  CASE c = "O" -> "o"
    [] c = "P" -> "p"
    [] c = "E" -> "e"
    [] c = "N" -> "n"
    [] c = "G" -> "g"
    [] c = "V" -> "v"
    [] OTHER   -> c

lower(s) == [i \in Indices(s) |-> LowerChar(s[i])]

\* pattern in s
Contains(s, pattern) ==
  \E i \in 0..(Len(s) - Len(pattern)) :
    SubSeq(s, i + 1, i + Len(pattern)) = pattern

\* mutant: the URL is matched as it is written
url_lower_missing(url) == url

\* url_lower = url.lower()
url_lower(url) == lower(url)

\* the for loop of lines 53-55 from entry i on, then 'return None'
RECURSIVE FirstMatch(_, _)
FirstMatch(url, i) ==
  IF i > Len(LINK_WAIT_STRATEGIES) THEN None
  ELSE IF Contains(url_lower(url), LINK_WAIT_STRATEGIES[i].pattern)
    THEN Some(LINK_WAIT_STRATEGIES[i].strategy)
    ELSE FirstMatch(url, i + 1)

get_wait_strategy(url) == FirstMatch(url, 1)

\* the wait_until argument of page.goto (lines 620-628)
wait_until(wait_strategy) ==
  IF wait_strategy # None THEN Get(wait_strategy) ELSE "domcontentloaded"

\* the URLs looked up: a host part in either case letter by letter, or a
\* host that only resembles the pattern, between a scheme and a path
HostLetters ==
  << {"o", "O"}, {"p", "P"}, {"e", "E"}, {"n", "N"}, {"g", "G"},
     {"o", "O"}, {"v", "V"} >>

Hosts ==
  {<<a, b, c, d, e, f, g>> :
     a \in HostLetters[1], b \in HostLetters[2], c \in HostLetters[3],
     d \in HostLetters[4], e \in HostLetters[5], f \in HostLetters[6],
     g \in HostLetters[7]}
  \cup { <<"o", "p", "e", "n", "g", "o">>,
         <<"g", "o", "v", "o", "p", "e", "n">>,
         <<"o", "p", "e", "n", "-", "g", "o", "v">>,
         <<>> }

Urls ==
  {pre \o h \o suf :
     pre \in { <<>>, <<"/", "/">> },
     h   \in Hosts,
     suf \in { <<>>, <<".", "c">> }}

WaitInit ==
  /\ Constructed
  /\ fragment = <<>>
  /\ parsed = NotParsed
  /\ ai_call = NoAiCall
  /\ variant = "scraper3"
  /\ banner = NoBanner
  /\ sel_evals = 0
  /\ triggers = 0
  /\ paste_input = NoInput
  /\ debug_dir = NoFiles
  /\ wait_lookup \in {[NoLookup EXCEPT !.url = u] : u \in Urls}

\* lines 614-628: the lookup, and the policy the navigation is given
WaitLookup ==
  /\ wait_lookup.state = "idle"
  /\ wait_lookup' =
       [wait_lookup EXCEPT
          !.state = "done",
          !.wait_strategy = get_wait_strategy(wait_lookup.url),
          !.wait_until = wait_until(get_wait_strategy(wait_lookup.url))]
  /\ UNCHANGED <<pc, navVars, visits, pageVars, manVars, log, writes, ret,
                 saved, parseVars, selVars, paste_input, debug_dir>>

WaitNext == WaitLookup

WaitSpec == WaitInit /\ [][WaitNext]_vars

\* ---------------------------------------------------------------------
\* save_debug_html (lines 772-796) on its own: the files of ./debug_html
\* after a sequence of calls
\* ---------------------------------------------------------------------
\* datetime.now().strftime("%Y%m%d_%H%M%S"): local time to the second,
\* as successive readings of it
Timestamps == {1, 2}

\* markup whose structured parse fails, as save_debug_html is given
DebugMarkups == {"DIV", "EMPTY_TABLE", "BLANK_ROWS"}

DebugUrls == {"", "https://x", "https://y"}

\* hashlib.md5((source_url or "").encode()).hexdigest()[:8]
url_hash(source_url) ==
  CASE source_url = ""          -> "d41d8cd9"
    [] source_url = "https://x" -> "7d0708a6"
    [] source_url = "https://y" -> "7521651c"

\* f"parse_failure_{timestamp}_{url_hash}.html"
filename(timestamp, source_url) ==
  [timestamp |-> timestamp, url_hash |-> url_hash(source_url)]

\* open(filepath, "w") and the writes: a file of that name is replaced
WriteFile(files, name, html_content) ==
  {f \in files : f.name # name}
    \cup {[name |-> name, html_content |-> html_content]}

DebugInit ==
  /\ Constructed
  /\ fragment = <<>>
  /\ parsed = NotParsed
  /\ ai_call = NoAiCall
  /\ variant = "scraper3"
  /\ banner = NoBanner
  /\ sel_evals = 0
  /\ triggers = 0
  /\ paste_input = NoInput
  /\ wait_lookup = NoLookup
  /\ debug_dir = NoFiles

\* one call of save_debug_html; written is FALSE when open or write
\* raises (lines 793-795)
DebugSave ==
  /\ Len(debug_dir.calls) < MaxDebugCalls
  /\ \E html_content \in DebugMarkups, source_url \in DebugUrls,
        timestamp \in Timestamps, written \in BOOLEAN :
       LET name == filename(timestamp, source_url)
       IN  debug_dir' =
             [files |-> IF written
                          THEN WriteFile(debug_dir.files, name, html_content)
                          ELSE debug_dir.files,
              calls |-> Append(debug_dir.calls,
                               [html_content |-> html_content,
                                source_url |-> source_url,
                                name |-> name, written |-> written])]
  /\ UNCHANGED <<pc, navVars, visits, pageVars, manVars, log, writes, ret,
                 saved, parseVars, selVars, paste_input, wait_lookup>>

DebugNext == DebugSave

DebugSpec == DebugInit /\ [][DebugNext]_vars

\* ---------------------------------------------------------------------
\* Properties
\* ---------------------------------------------------------------------
LogAt(i, e, src) == log[i].e = e /\ log[i].src = src

PasteCount == Cardinality({i \in DOMAIN log : log[i].e = "paste"})

Total == Len(links)

\* C1: whenever main's position current_index is defined it is an integer
\* in [0, N-1]; no menu ever returned a 'next' taken at N-1 or a
\* 'previous' taken at 0 (or at the undefined position).
C1_PositionInRange ==
  /\ current_index # None => Get(current_index) \in 0..(Total - 1)
  /\ (last.result.action = "goto" /\ last.choice.kind = "n" /\ last.from # None)
       => Get(last.from) < Total - 1
  /\ (last.result.action = "goto" /\ last.choice.kind = "p")
       => (last.from # None /\ Get(last.from) > 0)

\* a 'next' typed at the post-scrape menu was accepted and led to the
\* last link of a collection of two or more
C1_Witness ==
  /\ last.menu = "post"
  /\ last.choice.kind = "n"
  /\ last.result.action = "goto"
  /\ Total >= 2
  /\ current_index = Some(Total - 1)

\* C2: on one page, however often returnHTML is invoked, set_result is
\* called once, with the markup of the first invocation; a later
\* invocation changes neither the future nor anything else on the host,
\* and the markup process_link goes on to parse is the first one.
C2_Resolved ==
  pc \in {"inject", "await"} =>
    /\ Len(resolutions) <= 1
    /\ future.done <=> hook_calls # <<>>
    /\ future.done => /\ future.result = hook_calls[1].m
                      /\ resolutions = << hook_calls[1].m >>

C2_LaterCallIsDropped ==
  (future.done /\ Len(hook_calls') > Len(hook_calls)) =>
    /\ future' = future
    /\ resolutions' = resolutions
    /\ UNCHANGED <<pc, navVars, visits, manVars, log, writes, ret, saved>>

C2_ParsesFirst ==
  (pc = "await" /\ pc' # "await") =>
    /\ log' # <<>>
    /\ LogAt(1, "tier1", "capture")'
    /\ log'[1].m = hook_calls[1].m

C2_CaptureIdempotent ==
  []C2_Resolved /\ [][C2_LaterCallIsDropped /\ C2_ParsesFirst]_vars

\* the hook was invoked twice on one page, with different markup
C2_Witness ==
  /\ pc = "await"
  /\ Len(hook_calls) >= 2
  /\ hook_calls[1].m # hook_calls[2].m
  /\ future.done

\* C3: once the AI parser has run on the captured markup, the structured
\* parser does not run on the captured markup again (it runs again only
\* on what the operator pastes).
C3_TierMonotonic ==
  \A i, j \in DOMAIN log :
    (i < j /\ LogAt(i, "ai", "capture")) => ~LogAt(j, "tier1", "capture")

\* after the AI call on the capture, the operator pasted the very same
\* markup and the structured parser ran on the paste
C3_Witness ==
  \E i, j \in DOMAIN log :
    /\ i < j
    /\ LogAt(i, "ai", "capture")
    /\ LogAt(j, "tier1", "paste")
    /\ log[j].m = log[i].m

C6_SummaryReasons ==
  summary.printed =>
    /\ Len(summary.errors) = PasteCount
    /\ Len(summary.errors) <= max_retries
    /\ \A k \in DOMAIN summary.errors : summary.errors[k].attempt = k
    /\ PasteCount = max_retries => Len(summary.errors) = 3
    /\ (Len(log) >= 2 /\ log[Len(log) - 1].e = "retry")
         => Len(summary.errors) < 3

\* the summary was printed with 3 reasons, one of them a rejected preview
C6_Witness ==
  /\ summary.printed
  /\ Len(summary.errors) = 3
  /\ \E k \in DOMAIN summary.errors :
       summary.errors[k].reason = "User rejected parsed data"

\* C7: in every payload handed to the Persistence Sink rowCount is the
\* number of records of that payload.
C7_RowCount ==
  \A i \in DOMAIN writes : writes[i].rowCount = Len(writes[i].data)

\* a payload of two records (from the AI tier) was handed over
C7_Witness ==
  \E i \in DOMAIN writes : writes[i].rowCount = 2 /\ Len(writes[i].data) = 2

FailureScenario ==
  /\ log # <<>>
  /\ LogAt(1, "tier1", "capture")
  /\ Len(Tables(log[1].m)) = 0
  /\ \E i \in DOMAIN log : LogAt(i, "ai", "capture") /\ log[i].info = "failure"
  /\ \A i \in DOMAIN log : log[i].e # "paste"

\* C9: after the failure scenario process_link has returned False, made
\* no Persistence Sink write and closed its page, and the navigator menu
\* is offered (session running, browser open, quit available) at the
\* position the link was processed at.
C9_AtMenu ==
  (pc = "menu" /\ FailureScenario) =>
    /\ ret = "False"
    /\ writes = <<>>
    /\ saved = ""
    /\ open_pages = {}
    /\ browser = "open"
    /\ exit_code = None
    /\ current_index # None
    /\ get_post_scrape_action(Total, Get(current_index),
                              Choice("q", 0)).action = "quit"

C9_PositionHeld ==
  pc \notin {"select", "menu"} => current_index' = current_index

C9_FailureScenario == []C9_AtMenu /\ [][C9_PositionHeld]_vars

\* the failure scenario happened and the menu is shown
C9_Witness ==
  /\ pc = "menu"
  /\ FailureScenario
  /\ ret = "False"
  /\ log[Len(log)].e = "offer"

\* C10: with a single link of id 1 and a capture of the table with header
\* [State, Amount] and row [TX, 100], process_link makes exactly one
\* Persistence Sink write: link id 1, records [{State: "TX", Amount:
\* "100"}] (strings), rowCount 1.
C10_SuccessScenario ==
  (/\ pc = "menu"
   /\ Total = 1
   /\ log # <<>>
   /\ LogAt(1, "tier1", "capture")
   /\ log[1].m = "TX") =>
    /\ ret = "True"
    /\ Len(writes) = 1
    /\ writes[1].procurementUrlId = 1
    /\ writes[1].data = << [State  |-> [t |-> "str", v |-> "TX"],
                            Amount |-> [t |-> "str", v |-> "100"]] >>
    /\ writes[1].rowCount = 1

\* the success scenario happened
C10_Witness ==
  /\ pc = "menu"
  /\ Total = 1
  /\ log # <<>>
  /\ LogAt(1, "tier1", "capture")
  /\ log[1].m = "TX"
  /\ ret = "True"
  /\ Len(writes) = 1

\* the data rows of the table of an [A, B, C] fragment, the rows that
\* hold a value and the header labels whose column holds one
AbcRows == fragment[1].rows

AbcKeptRows == {i \in {1, 2} : \E j \in {1, 2, 3} : ~IsBlank(AbcRows[i][j])}

AbcKeptLabels ==
  {fragment[1].header[j] :
     j \in {j \in {1, 2, 3} : \E i \in {1, 2} : ~IsBlank(AbcRows[i][j])}}

\* C11 as stated: a fragment of one table with header [A, B, C] and two
\* data rows parses into exactly two records, each with key set
\* {A, B, C}, every value a string, every blank cell the empty string.
C11_RoundTrip ==
  (fragment \in AbcFragments /\ parsed # NotParsed) =>
    /\ parsed.outcome = "ok"
    /\ Len(parsed.records) = 2
    /\ \A i \in {1, 2} :
         /\ DOMAIN parsed.records[i] = {"A", "B", "C"}
         /\ \A j \in {1, 2, 3} :
              LET v == parsed.records[i][fragment[1].header[j]]
              IN  /\ v.t = "str"
                  /\ IsBlank(AbcRows[i][j]) => v = StrV("")

\* C11 amended: such a fragment parses into one record per data row that
\* holds a value, in row order, keyed by the labels of the columns that
\* hold a value (two records with key set {A, B, C} when every row and
\* every column holds one); every value is a string and every cell
\* without a value is the empty string; with no value at all the
\* structured parse fails as 'empty after cleaning'.
C11_RoundTripOfValues ==
  (fragment \in AbcFragments /\ parsed # NotParsed) =>
    IF AbcKeptRows = {}
      THEN parsed.outcome = "empty"
      ELSE
        /\ parsed.outcome = "ok"
        /\ Len(parsed.records) = Cardinality(AbcKeptRows)
        /\ (AbcKeptRows = {1, 2} /\ AbcKeptLabels = {"A", "B", "C"}) =>
             /\ Len(parsed.records) = 2
             /\ \A i \in {1, 2} : DOMAIN parsed.records[i] = {"A", "B", "C"}
        /\ \A k \in DOMAIN parsed.records :
             LET i == IF k = 2 \/ 1 \notin AbcKeptRows THEN 2 ELSE 1
             IN  /\ DOMAIN parsed.records[k] = AbcKeptLabels
                 /\ \A j \in {1, 2, 3} :
                      fragment[1].header[j] \in AbcKeptLabels =>
                        LET v == parsed.records[k][fragment[1].header[j]]
                        IN  /\ v.t = "str"
                            /\ IsBlank(AbcRows[i][j]) => v = StrV("")
                            /\ v = StrV("") => IsBlank(AbcRows[i][j])

\* a fragment whose rows and columns all hold a value, with a blank
\* cell, was parsed
C11_Witness ==
  /\ fragment \in AbcFragments
  /\ parsed.outcome = "ok"
  /\ AbcKeptRows = {1, 2}
  /\ AbcKeptLabels = {"A", "B", "C"}
  /\ \E i \in {1, 2}, j \in {1, 2, 3} : AbcRows[i][j] = ""

\* C12: every record batch handed to the Persistence Sink, whichever tier
\* produced it, has only string-typed cell values (never numeric,
\* boolean or null).
C12_Normalized ==
  \A i \in DOMAIN writes :
    \A k \in DOMAIN writes[i].data :
      \A col \in DOMAIN writes[i].data[k] : writes[i].data[k][col].t = "str"

\* reasons of rejected previews among the recorded reasons errs
Rejections(errs) ==
  Cardinality({k \in DOMAIN errs :
                 errs[k].reason = "User rejected parsed data"})

\* previews answered with no
RejectedPreviews ==
  Cardinality({i \in DOMAIN log : log[i].e = "confirm" /\ ~log[i].ok})

\* the write at i hands over records that attempt previewed and the
\* operator confirmed: paste, structured parse, preview, 'y', write
ConfirmedWrite(i) ==
  /\ i > 4
  /\ log[i - 1].e = "confirm" /\ log[i - 1].ok
  /\ log[i - 2].e = "preview"
  /\ LogAt(i - 3, "tier1", "paste") /\ log[i - 3].ok
  /\ log[i - 4].e = "paste"
  /\ log[i - 4].m = log[i - 2].m

\* a rejected preview counts as a failed attempt: its reason is recorded
RejectedCounts ==
  /\ pc \in {"m_paste", "m_retry", "m_confirm"} =>
       /\ Rejections(errors) = RejectedPreviews
       /\ Len(errors) = (IF pc = "m_paste" THEN attempt - 1
                         ELSE IF pc = "m_retry" THEN attempt
                         ELSE attempt - 1)
  /\ summary.printed => Rejections(summary.errors) = RejectedPreviews

PassRejected == last.result.action = "again"

\* the latest menu pass returned position i
PassWentTo(i) ==
  /\ last.result = Return("goto", Some(i))
  /\ current_index = Some(i)

\* C14: from a defined position p over N links a pass of
\* get_post_scrape_action yields: next -> p+1 if p < N-1, else rejected;
\* previous -> p-1 if p > 0, else rejected; repeat -> p; jump k -> k-1 if
\* 1 <= k <= N, else rejected; quit -> terminal; no other position.
C14_PostScrapeTransitions ==
  last.menu = "post" =>
    LET p == Get(last.from)
        c == last.choice
    IN  /\ c.kind = "n" =>
             IF p < Total - 1 THEN PassWentTo(p + 1) ELSE PassRejected
        /\ c.kind = "p" =>
             IF p > 0 THEN PassWentTo(p - 1) ELSE PassRejected
        /\ c.kind = "r" => PassWentTo(p)
        /\ c.kind \in {"j", "num"} =>
             IF 1 <= c.num /\ c.num <= Total
               THEN PassWentTo(c.num - 1) ELSE PassRejected
        /\ c.kind = "q" => (last.result.action = "quit" /\ pc = "done")
        /\ last.result.action = "goto" =>
             /\ c.kind \in {"n", "p", "r", "j", "num"}
             /\ Get(current_index) \in 0..(Total - 1)
        /\ c.kind \in {"l", "jbad", "bad"} => PassRejected

\* a jump to the first of two links was typed at the second
C14_Witness ==
  /\ last.menu = "post"
  /\ last.from = Some(1)
  /\ last.choice = Choice("j", 1)
  /\ current_index = Some(0)
  /\ Total = 2

\* C15: from the undefined position a pass of get_user_selection yields:
\* next -> 0; number k with 1 <= k <= N -> k-1; quit -> terminal; every
\* other input, 'previous' included, is rejected and the position stays
\* undefined.
C15_SelectionTransitions ==
  last.menu = "select" =>
    LET c == last.choice
    IN  /\ last.from = None
        /\ IF c.kind = "n" THEN PassWentTo(0)
           ELSE IF c.kind = "num" /\ 1 <= c.num /\ c.num <= Total
             THEN PassWentTo(c.num - 1)
           ELSE IF c.kind = "q"
             THEN /\ last.result.action = "quit"
                  /\ pc = "done"
                  /\ exit_code = Some(0)
                  /\ current_index = None
           ELSE /\ PassRejected
                /\ current_index = None
                /\ pc = "select"

\* 'previous' was typed at the undefined position and rejected
C15_Witness ==
  /\ last.menu = "select"
  /\ last.choice.kind = "p"
  /\ PassRejected
  /\ current_index = None
  /\ pc = "select"

\* inputs the menus must reject at position from: next at the last
\* link, previous at the first (or at none), a number out of range,
\* malformed text, 'list'
MustReject(menu, from, c) ==
  \/ c.kind \in {"l", "bad", "jbad"}
  \/ c.kind = "num" /\ ~(1 <= c.num /\ c.num <= Total)
  \/ menu = "post" /\ c.kind = "j" /\ ~(1 <= c.num /\ c.num <= Total)
  \/ menu = "select" /\ c.kind \in {"j", "r"}
  \/ c.kind = "n" /\ from # None /\ Get(from) = Total - 1
  \/ c.kind = "p" /\ (from = None \/ from = Some(0))

C16_Rejects ==
  (last.menu # "" /\ MustReject(last.menu, last.from, last.choice)) =>
    /\ PassRejected
    /\ last.result.index = None
    /\ current_index = last.from
    /\ pc = (IF last.menu = "select" THEN "select" ELSE "menu")

C16_Frame ==
  (last' # last /\ last'.result.action = "again") =>
    /\ pc' = pc
    /\ current_index' = current_index
    /\ UNCHANGED <<links, browser, exit_code>>

\* C16: in both menus a rejected transition, a malformed choice and
\* 'list' return nothing to main: the position is as before and the same
\* menu prompts again; no position is returned for input that was not
\* recognised.
C16_RejectedFrame == []C16_Rejects /\ [][C16_Frame]_vars

\* malformed text was typed at the post-scrape menu of the second link
C16_Witness ==
  /\ last.menu = "post"
  /\ last.choice.kind = "bad"
  /\ PassRejected
  /\ current_index = Some(1)
  /\ pc = "menu"

\* quit can be typed at the menu main is at
QuitOffered ==
  /\ pc = "select" =>
       get_user_selection(Total, current_index, Choice("q", 0)).action = "quit"
  /\ pc = "menu" =>
       get_post_scrape_action(Total, Get(current_index),
                              Choice("q", 0)).action = "quit"

C17_AtQuit ==
  /\ QuitOffered
  /\ last.result.action = "quit" =>
       /\ pc = "done"
       /\ exit_code = Some(0)
       /\ open_pages = {}
       /\ last.menu = "post" => browser = "closed"
       /\ last.menu = "select" => (browser = "none" /\ visits = 0)

C17_NothingAfter ==
  pc = "done" => UNCHANGED <<pc, visits, pages_created, writes, browser,
                            exit_code, current_index>>

\* C17: quit is offered at both menus; once quit is chosen at the
\* post-scrape menu main has left its loop, closed the browser context
\* and returned 0, and nothing runs after it: no link is processed, no
\* page is opened.
C17_QuitTerminal == []C17_AtQuit /\ [][C17_NothingAfter]_vars

\* quit was typed at the post-scrape menu after two visits
C17_Witness ==
  /\ last.menu = "post"
  /\ last.result.action = "quit"
  /\ visits = 2
  /\ browser = "closed"
  /\ pc = "done"

\* the visit ended with 'Could not load'
NavigationFailed ==
  /\ pc = "menu"
  /\ Len(log) = 1
  /\ log[1].e = "nav_error"

C18_Skipped ==
  NavigationFailed =>
    /\ ret = "False"
    /\ open_pages = {}
    /\ writes = <<>>
    /\ exit_code = None
    /\ browser = "open"
    /\ current_index # None
    /\ HasNext(Total, Get(current_index)) =>
         get_post_scrape_action(Total, Get(current_index),
                                Choice("n", 0)).action = "goto"

C18_Held ==
  (pc = "goto" /\ pc' = "menu") =>
    /\ NavigationFailed'
    /\ UNCHANGED <<current_index, links, browser, exit_code, visits>>
    /\ open_pages' = open_pages \ {pages_created}

\* C18: an error of page.goto is reported, the page of the link is
\* closed and process_link returns False without a Persistence Sink
\* write; main goes on to the post-scrape menu with the browser open and
\* current_index as it was.
C18_NavigationError == []C18_Skipped /\ [][C18_Held]_vars

\* navigation failed at the first of two links
C18_Witness ==
  /\ NavigationFailed
  /\ Total = 2
  /\ current_index = Some(0)
  /\ ret = "False"

\* the structured parse of the capture failed at position i of the log
Tier1Failed(i) == LogAt(i, "tier1", "capture") /\ ~log[i].ok

\* position i of the log is a save_debug_html call for the markup and
\* the source URL of the AI call at position j
DebugCallFor(i, j) ==
  /\ LogAt(i, "debug", "capture")
  /\ log[i].m = log[j].m
  /\ log[i].url = log[j].url

C20_DebugOnlyWhenAllFail ==
  \A i \in DOMAIN log :
    (LogAt(i, "debug", "capture") /\ log[i].ok) =>
      \A j \in DOMAIN log :
        (log[j].src = "capture" /\ log[j].e \in {"tier1", "ai"}) => ~log[j].ok

\* C20 amended: a debug artifact is saved only when the structured parse
\* of a capture failed, before the AI parser is asked and whatever it
\* answers: none for a capture whose structured parse succeeds, none for
\* a paste, at most one for a capture.
C20_DebugOnlyWhenTier1Fails ==
  /\ \A i \in DOMAIN log :
       log[i].e = "debug" =>
         /\ log[i].src = "capture"
         /\ i > 1
         /\ Tier1Failed(i - 1)
         /\ log[i - 1].m = log[i].m
  /\ \A i \in DOMAIN log :
       (LogAt(i, "tier1", "capture") /\ log[i].ok) =>
         \A j \in DOMAIN log : log[j].e # "debug"
  /\ Cardinality({i \in DOMAIN log : log[i].e = "debug"}) <= 1

\* a debug artifact was saved for a capture and the AI parser then
\* succeeded on it
C20_Witness ==
  \E i \in DOMAIN log :
    /\ LogAt(i, "debug", "capture") /\ log[i].ok
    /\ i < Len(log)
    /\ LogAt(i + 1, "ai", "capture") /\ log[i + 1].ok

\* C21: parse_with_ai_agent returns the rows only when the call did not
\* raise, the service reported success and the row list is not empty;
\* for every other outcome, a raised exception included, it returns
\* None.
C21_AiOutcome ==
  ai_call.called =>
    LET r == ai_call.result
    IN  IF ~r.raises /\ r.success /\ Len(r.data) > 0
          THEN ai_call.returned = r.data /\ ai_call.returned # None
          ELSE ai_call.returned = None

\* the call raised, after a structured parse that found no table, and
\* None was returned
C21_Witness ==
  /\ ai_call.called
  /\ ai_call.result.raises
  /\ ai_call.returned = None
  /\ parsed.outcome = "value_error"

\* process_link is back in main after a write that raised
WriteFailed == pc = "menu" /\ saved = "None"

\* the client.mutation calls in the record of the visit
WriteEvents == {i \in 1..Len(log) : log[i].e = "write"}

C22_Held ==
  WriteFailed =>
    /\ ret = "True"
    /\ Len(writes) = 1
    /\ Cardinality(WriteEvents) = 1
    /\ log[Len(log)].e = "write"
    /\ exit_code = None
    /\ browser = "open"
    /\ open_pages = {}
    /\ \A choice \in MenuChoices :
         get_post_scrape_action(Len(links), Get(current_index), choice).action
           \in {"quit", "goto", "again"}

C22_MenuNext ==
  WriteFailed =>
    /\ pc' \in {"menu", "process", "done"}
    /\ writes' \in {writes, <<>>}
    /\ exit_code' \in {None, Some(0)}

\* C22: a write that raises is caught inside
\* save_procurement_data_to_convex: process_link returns True as after
\* a write that succeeded, the mutation was sent once and is not sent
\* again, the program does not end with an error, and the next thing
\* that happens is the post-scrape menu.
C22_FailedWriteCaught == []C22_Held /\ [][C22_MenuNext]_vars

\* the write of records parsed from a capture raised
C22_Witness ==
  /\ WriteFailed
  /\ Len(writes) = 1
  /\ writes[1].rowCount > 0
  /\ ret = "True"

\* process_link is running with a page of its own
PageInUse ==
  pc \in {"goto", "step1", "inject", "await", "manual_choice", "m_paste",
          "m_confirm", "m_retry"}

C25_OnePagePerVisit ==
  /\ PageInUse => open_pages = {pages_created}
  /\ ~PageInUse => open_pages = {}
  /\ pages_created <= visits

C25_FreshPage ==
  (pc = "process" /\ pc' = "goto") =>
    /\ pages_created' \notin 1..pages_created
    /\ open_pages = {}
    /\ open_pages' = {pages_created'}
    /\ page' = NewPage
    /\ future' = NewFuture

\* C25: every process_link invocation that has a URL opens a page no
\* earlier invocation used and closes it before it returns: while an
\* invocation runs its page is the only open page, between invocations
\* no page is open, and a repeat of the same link gets a new page too.
C25_PagesNotReused == []C25_OnePagePerVisit /\ [][C25_FreshPage]_vars

\* the only link is visited a second time, on a second page
C25_Witness ==
  /\ Len(links) = 1
  /\ visits = 2
  /\ pages_created = 2
  /\ open_pages = {2}
  /\ pc = "await"

\* C26: the browser context is launched, and the navigator menus run,
\* only after the Link Source query returned links; when the query
\* raises main returns 1 and neither a browser nor a menu ever ran.
C26_QueryBeforeBrowser ==
  /\ link_query = "pending" <=> pc = "start"
  /\ (browser # "none" \/ pc \notin {"start", "done"} \/ last # NoLast
        \/ visits > 0) =>
       (link_query = "returned" /\ Len(links) > 0)
  /\ link_query = "raised" =>
       /\ pc = "done"
       /\ exit_code = Some(1)
       /\ browser = "none"
       /\ last = NoLast
       /\ visits = 0
       /\ pages_created = 0
       /\ links = <<>>

\* the Link Source query raised and main returned 1
C26_Witness ==
  /\ link_query = "raised"
  /\ exit_code = Some(1)
  /\ browser = "none"
  /\ pc = "done"

C30_Outcome ==
  /\ pc = "step1" =>
       /\ loaded \in {"ok", "idle_timeout"}
       /\ open_pages = {pages_created}
       /\ ret = "none"
       /\ log = <<>>
  /\ NavigationFailed =>
       /\ log[1].info = "error"
       /\ ret = "False"
       /\ exit_code = None
       /\ browser = "open"

C30_AfterWaits ==
  pc = "goto" =>
    \/ pc' = "step1" /\ verification' \in Verifications
    \/ pc' = "menu" /\ NavigationFailed'

\* C30: when the network-idle wait expires process_link goes on to the
\* verification check and the STEP 1 prompt with the page open, as
\* after a wait that returned; when page.goto raises, the invocation
\* ends with False for this link only: the browser stays open and main
\* goes on to the post-scrape menu.
C30_WaitExpiry == []C30_Outcome /\ [][C30_AfterWaits]_vars

\* the network-idle wait expired and process_link is at the STEP 1
\* prompt, check_for_verification having reported a challenge
C30_Witness ==
  /\ pc = "step1"
  /\ loaded = "idle_timeout"
  /\ verification # ""
  /\ open_pages = {pages_created}

\* process_link is suspended at 'await future'
CaptureWait == pc = "await" /\ ~future.done

\* C23 as stated: the capture wait is left only through an event the
\* operator caused, that is, the future the await returned was resolved
\* by the capture trigger of the selector.
C23_OperatorOnly ==
  (pc = "await" /\ future.done) =>
    /\ Len(hook_calls) > 0
    /\ hook_calls[1].by = "selector"

C23_Resolved ==
  (pc = "await" /\ future.done) =>
    /\ Len(hook_calls) > 0
    /\ hook_calls[1].by \in {"selector", "page"}
    /\ future.result = hook_calls[1].m

C23_NoTimeout ==
  /\ CaptureWait =>
       /\ pc' = "await"
       /\ future'.done => Len(hook_calls') = Len(hook_calls) + 1
       /\ UNCHANGED <<visits, ret, open_pages, log>>
  /\ (pc = "await" /\ pc' # "await") => future.done

\* C23 amended: no timer or timeout transition leaves the capture wait;
\* while the future is unresolved every step stays in the wait, and the
\* wait is left only after an invocation of the exposed hook returnHTML,
\* which the operator's capture trigger makes and which any other
\* script of the page can make too.
C23_HookOnly == []C23_Resolved /\ [][C23_NoTimeout]_vars

\* the wait of a second visit was ended by the selector's capture
C23_Witness ==
  /\ pc = "await"
  /\ future.done
  /\ Len(hook_calls) = 1
  /\ hook_calls[1].by = "selector"
  /\ visits = 2

\* a step that takes process_link out of the capture wait and back to
\* main's menu
C24_Cancel == Next /\ pc' = "menu"

\* C24: while process_link is suspended waiting for the capture
\* trigger, an operator command that performs no capture can end the
\* wait and return control to the navigator menu.
C24_Cancellable == CaptureWait => ENABLED C24_Cancel

\* the step is a capture trigger on the page
TriggerStep == triggers' = triggers + 1

\* the hotkey is pressed while the script of scraper.py is active and no
\* element is highlighted
HotkeyNoElement ==
  /\ variant = "scraper"
  /\ TriggerStep
  /\ page.listeners > 0
  /\ page.isActive
  /\ page.lastElement = ""

C27_Feedback ==
  /\ HotkeyNoElement =>
       /\ hook_calls' = hook_calls
       /\ future' = future
       /\ page' = page
       /\ banner'.text = "warning"
       /\ banner'.restore
  /\ (variant = "scraper" /\ TriggerStep /\ page.listeners > 0
        /\ page.isActive /\ page.lastElement # "") =>
       /\ hook_calls' = Append(hook_calls,
                               [m |-> page.lastElement, by |-> "selector"])
       /\ future'.done

C27_Warning ==
  (variant = "scraper" /\ banner.text = "warning") =>
    /\ banner.restore
    /\ page.isActive
    /\ page.listeners = 1
    /\ hook_calls = <<>>
    /\ ~future.done

\* C27: in scraper.py a hotkey press with no element highlighted only
\* turns the banner into a warning that a timer takes back: the hook is
\* not called, the script stays active with its listeners installed,
\* and a later press with an element highlighted calls the hook and
\* resolves the future.
C27_HotkeyNoElement == []C27_Warning /\ [][C27_Feedback]_vars

\* a press without an element was followed by a press that captured,
\* the timer of the warning still pending
C27_Witness ==
  /\ variant = "scraper"
  /\ banner.restore
  /\ triggers = 2
  /\ Len(hook_calls) = 1
  /\ future.done
  /\ future.result = hook_calls[1].m

C28_Deactivated ==
  /\ Len(hook_calls) <= sel_evals
  /\ (Len(hook_calls) > 0 /\ sel_evals = 1) =>
       /\ Len(hook_calls) = 1
       /\ page.listeners = 0
       /\ ~page.isActive

C28_LaterTrigger ==
  TriggerStep =>
    /\ hook_calls' # hook_calls => (page'.listeners = 0 /\ ~page'.isActive)
    /\ page.listeners = 0 => (hook_calls' = hook_calls /\ page' = page)
    /\ (Len(hook_calls) > 0 /\ sel_evals = 1) => hook_calls' = hook_calls

\* C28: in each of the three scripts the trigger that captures removes
\* the mouseover and the trigger listener (and clears isActive where the
\* script has it), so on a page where SELECTOR_JS was evaluated once
\* every later trigger calls the hook zero further times.
C28_OneShot == []C28_Deactivated /\ [][C28_LaterTrigger]_vars

\* scraper_tool.py: three clicks on the page, one hook call
C28_Witness ==
  /\ variant = "scraper_tool"
  /\ sel_evals = 1
  /\ triggers = 3
  /\ Len(hook_calls) = 1
  /\ page.listeners = 0

C29_OnePair ==
  variant = "scraper3" =>
    /\ page.listeners <= 1
    /\ page.flag <=> page.listeners = 1
    /\ page.flag <=> page.isActive

C29_Guard ==
  (variant = "scraper3" /\ sel_evals' = sel_evals + 1) =>
    /\ page.flag => page' = page
    /\ ~page.flag => (page'.listeners = 1 /\ page'.flag)

\* C29: SELECTOR_JS of scraper3.py tests the page-global flag before it
\* installs anything: evaluated on a page whose selector is active it
\* changes nothing, and the page never holds more than one pair of
\* mouseover and click listeners.
C29_DoubleActivation == []C29_OnePair /\ [][C29_Guard]_vars

\* the script was evaluated a second time while the selector was active
\* and an element highlighted
C29_Witness ==
  /\ variant = "scraper3"
  /\ sel_evals = 2
  /\ hook_calls = <<>>
  /\ page.flag
  /\ page.listeners = 1
  /\ page.lastElement # ""

C31_AtPrompt ==
  pc = "step1" =>
    /\ verification \in Verifications
    /\ ~page.exposed
    /\ ~future.done
    /\ hook_calls = <<>>
    /\ open_pages = {pages_created}
    /\ ret = "none"
    /\ writes = <<>>
    /\ ENABLED (Step1 /\ pc' = "inject")
    /\ ENABLED (Step1 /\ pc' = "menu")

C31_SameStep ==
  /\ (pc = "goto" /\ ~NavigationFailed') =>
       /\ pc' = "step1"
       /\ UNCHANGED <<current_index, links, visits, future, hook_calls,
                      open_pages, ret, writes>>
  /\ pc = "step1" =>
       /\ pc' \in {"step1", "inject", "menu"}
       /\ current_index' = current_index

\* C31: whatever check_for_verification reports, a challenge by name or
\* nothing, process_link goes on to the STEP 1 prompt, where continue
\* and skip are both offered; the report closes no page, resolves no
\* future, calls no hook and leaves current_index alone.
C31_DetectionInforms == []C31_AtPrompt /\ [][C31_SameStep]_vars

\* a challenge was reported and process_link stands at the STEP 1 prompt
C31_Witness ==
  /\ pc = "step1"
  /\ verification = "reCAPTCHA"
  /\ loaded = "ok"
  /\ ~future.done

C35_AtMenu ==
  pc = "menu" =>
    /\ open_pages = {}
    /\ page = NewPage

C35_OnReturn ==
  (pc # "menu" /\ pc' = "menu") =>
    /\ pages_created' \notin open_pages'
    /\ open_pages' = open_pages \ {pages_created}
    /\ ret' \in {"True", "False"}

\* C35: on every return of process_link, True or False, the page it
\* created has been closed: no page is open while main shows the
\* post-scrape menu.
C35_PageClosedOnReturn == []C35_AtMenu /\ [][C35_OnReturn]_vars

\* process_link returned after page.evaluate raised; its page is closed
C35_Witness ==
  /\ pc = "menu"
  /\ Len(log) = 1
  /\ log[1].e = "inject_error"
  /\ pages_created = 1
  /\ open_pages = {}
  /\ ret = "False"

C36_Result ==
  /\ Len(writes) <= 1
  /\ pc = "menu" =>
       /\ ret \in {"True", "False"}
       /\ ret = "True" <=> (Len(writes) = 1 /\ Len(writes[1].data) > 0)
       /\ ret = "False" <=> writes = <<>>
  /\ Cardinality(WriteEvents) = Len(writes)

C36_WriteThenReturn ==
  (writes' # writes /\ writes' # <<>>) =>
    /\ pc' = "menu"
    /\ ret' = "True"
    /\ writes = <<>>

\* C36: process_link returns True exactly when it called
\* save_procurement_data_to_convex once, with a non-empty list of
\* records, whatever the mutation did; it returns False exactly when it
\* made no such call; no invocation makes two.
C36_TrueIffOneWrite == []C36_Result /\ [][C36_WriteThenReturn]_vars

\* True was returned for records the operator confirmed at the manual
\* prompt, and the mutation raised
C36_Witness ==
  /\ pc = "menu"
  /\ ret = "True"
  /\ saved = "None"
  /\ Len(writes) = 1
  /\ \E i \in 1..Len(log) : log[i].e = "confirm" /\ log[i].ok

\* the calls of window.returnHTML the selector made on this page
SelectorCaptures == {i \in 1..Len(hook_calls) : hook_calls[i].by = "selector"}

C37_Order ==
  /\ page.exposed =>
       pc \in {"inject", "await", "manual_choice", "m_paste", "m_confirm",
               "m_retry"}
  /\ (page.listeners > 0 \/ page.flag) =>
       (page.exposed /\ pc \notin {"goto", "step1", "inject"})
  /\ pc = "await" =>
       /\ page.exposed
       /\ page.listeners + Cardinality(SelectorCaptures) = 1
  /\ pc \in {"goto", "step1"} =>
       /\ ~page.exposed
       /\ page.listeners = 0
       /\ hook_calls = <<>>

C37_Steps ==
  /\ (~page.exposed /\ page'.exposed) => (pc = "step1" /\ pc' = "inject")
  /\ (page.listeners = 0 /\ page'.listeners > 0) =>
       (pc = "inject" /\ pc' = "await" /\ page.exposed)
  /\ (pc # "await" /\ pc' = "await") =>
       (pc = "inject" /\ page'.listeners = 1)
  /\ (pc = "step1" /\ pc' = "menu") =>
       (Len(log') = 1 /\ log'[1].e \in {"skip", "expose_error"})
  /\ (pc = "inject" /\ pc' = "menu") =>
       (Len(log') = 1 /\ log'[1].e = "inject_error")

\* C37: in process_link the hook is exposed only by the step that
\* answers the STEP 1 prompt without skipping, the selector is injected
\* only on a page whose hook is exposed, and the capture wait is entered
\* only from a successful injection.
C37_Ordering == []C37_Order /\ [][C37_Steps]_vars

\* process_link waits for the capture with hook and selector in place
C37_Witness ==
  /\ pc = "await"
  /\ page.exposed
  /\ page.listeners = 1
  /\ page.isActive
  /\ ~future.done
  /\ hook_calls = <<>>

\* process_link returned on the answer 's' at the STEP 1 prompt
SkippedLink ==
  /\ pc = "menu"
  /\ Len(log) = 1
  /\ log[1].e = "skip"

C38_Nothing ==
  /\ SkippedLink =>
       /\ ret = "False"
       /\ open_pages = {}
       /\ page = NewPage
       /\ writes = <<>>
       /\ saved = ""
       /\ hook_calls = <<>>
       /\ ~future.done
       /\ summary = NoSummary
  /\ \A i \in 1..Len(log) : log[i].e = "skip" => Len(log) = 1

C38_Direct ==
  SkippedLink' =>
    \/ SkippedLink
    \/ /\ pc = "step1"
       /\ ~page.exposed
       /\ page.listeners = 0
       /\ log = <<>>
       /\ open_pages = {pages_created}
       /\ UNCHANGED <<visits, current_index, pages_created>>

\* C38: on the answer 's' at the STEP 1 prompt process_link closes the
\* page and returns False in that very step: the hook was not exposed,
\* the selector not injected, no capture awaited, no parse tier run, no
\* debug file written and no mutation sent.
C38_SkipDoesNothing == []C38_Nothing /\ [][C38_Direct]_vars

\* the second visit was skipped at the STEP 1 prompt
C38_Witness ==
  /\ SkippedLink
  /\ visits = 2
  /\ ret = "False"
  /\ open_pages = {}

\* the 'Try again?' prompts in the record of the visit
RetryAsked == {i \in 1..Len(log) : log[i].e = "retry"}

C40_Asked ==
  /\ \A i \in RetryAsked :
       /\ i > 1
       /\ log[i - 1].e \in {"tier1", "ai"}
       /\ ~log[i - 1].ok
       /\ log[i - 1].src = "paste"
  /\ \A i \in 1..Len(log) :
       (log[i].e = "confirm" /\ i < Len(log)) => log[i + 1].e # "retry"
  /\ Cardinality(RetryAsked) <= max_retries - 1
  /\ pc = "m_retry" =>
       /\ attempt < max_retries
       /\ log[Len(log)].e = "retry"
       /\ Len(errors) = attempt

C40_Answer ==
  pc = "m_retry" =>
    \/ pc' = "m_retry"
    \/ /\ pc' = "m_paste"
       /\ attempt' = attempt + 1
       /\ errors' = errors
    \/ /\ pc' = "menu"
       /\ ret' = "False"
       /\ summary'.printed
       /\ summary'.errors = errors
       /\ writes' = <<>>

\* C40: 'Try again?' is asked only directly after a failed parse (or a
\* failed AI call) of a paste on attempt 1 or 2, never after a rejected
\* preview and never on attempt 3; on the answer 'y' the next attempt
\* starts, on any other answer the loop ends with the error summary and
\* process_link returns False.
C40_TryAgain == []C40_Asked /\ [][C40_Answer]_vars

\* 'Try again?' was asked on attempts 1 and 2 and declined on attempt 2
C40_Witness ==
  /\ pc = "menu"
  /\ Cardinality(RetryAsked) = 2
  /\ summary.printed
  /\ Len(summary.errors) = 2
  /\ ret = "False"

\* the <table> elements of the fragment that read_html turns into a frame
Detected == {i \in Indices(fragment) : ~IsEmptyData(fragment[i])}

FirstDetected ==
  fragment[CHOOSE i \in Detected : \A k \in Detected : i <= k]

\* the rows and the columns of the first detected table that hold a value
ValueRows ==
  {i \in Indices(FirstDetected.rows) :
     \E j \in Indices(FirstDetected.header) :
       ~IsBlank(FirstDetected.rows[i][j])}

ValueLabels ==
  {FirstDetected.header[j] : j \in
     {j \in Indices(FirstDetected.header) :
        \E i \in Indices(FirstDetected.rows) :
          ~IsBlank(FirstDetected.rows[i][j])}}

\* C32: the structured parse fails, and parse_html_to_records goes on to
\* the AI tier, exactly when no table is detected or the first detected
\* table keeps no row once its fully-empty rows and columns are dropped;
\* otherwise the records are the kept rows of the first table under its
\* kept columns, and the tables after the first change nothing.
C32_FirstTableCleaned ==
  parsed # NotParsed =>
    /\ parsed.outcome # "ok" <=> (Detected = {} \/ ValueRows = {})
    /\ parsed.outcome = "ok" =>
         /\ Len(parsed.records) = Cardinality(ValueRows)
         /\ \A k \in DOMAIN parsed.records :
              DOMAIN parsed.records[k] = ValueLabels
         /\ parsed = StructuredParseOf(<< FirstDetected >>)
    /\ ai_call.called => parsed.outcome # "ok"
    /\ (parsed.outcome # "ok" /\ ~ai_call.called) => ENABLED AiFallback
    /\ parsed.outcome = "ok" => ~ENABLED AiFallback

\* a fragment of two tables was parsed into the rows of its first table,
\* one row and one column of it dropped, the second table unused
C32_Witness ==
  /\ Len(fragment) = 2
  /\ Cardinality(Detected) = 2
  /\ parsed.outcome = "ok"
  /\ Len(parsed.records) = 1
  /\ Len(FirstDetected.rows) = 2
  /\ ValueLabels = {"State"}

\* a fragment whose first table is blank and whose second holds data
\* failed the structured parse and went to the AI tier
C32_LaterTableUnused ==
  /\ Len(fragment) = 2
  /\ Detected = {1, 2}
  /\ ValueRows = {}
  /\ \E j \in {1, 2} : ~IsBlank(fragment[2].rows[1][j])
  /\ parsed.outcome = "empty"
  /\ ai_call.called

\* the line just read is 'skip' in some spelling
SkipTyped == strip_lower(paste_input.line) = "skip"

C39_Skip ==
  /\ paste_input.how = "skip" =>
       /\ SkipTyped
       /\ paste_input.lines = <<>>
       /\ paste_input.state \in {"returned", "idle"}
       /\ paste_input.result = None
  /\ (SkipTyped /\ paste_input.how # "skip") =>
       /\ Len(paste_input.lines) >= 2
       /\ paste_input.lines[Len(paste_input.lines)] = paste_input.line
  /\ (paste_input.how = "end" /\ paste_input.result = None) =>
       \A i \in Indices(paste_input.lines) :
         paste_input.lines[i] \in {"", " "}

C39_NoneReturned ==
  (paste_input.state = "returned" /\ paste_input.result = None) =>
    \/ UNCHANGED vars
    \/ /\ attempt \in 1..max_retries
       /\ pc' = "menu"
       /\ ret' = "False"
       /\ summary' = NoSummary
       /\ log' = Append(log, Ev("paste", "paste", ""))
       /\ writes' = writes
       /\ open_pages' = {}

\* C39: get_manual_html_input returns None on 'skip' only when no line was
\* collected before it (after any line, an empty one included, 'skip' is
\* collected as content); when it returns None, for a cancel or for a
\* paste without text, manual_html_fallback returns failure at once:
\* no reason recorded, no error summary, no further attempt.
C39_SkipFirstLine == []C39_Skip /\ [][C39_NoneReturned]_vars

\* 'skip' as the first line of the second attempt: process_link returned
\* False with one reason recorded earlier and no summary printed
C39_Witness ==
  /\ pc = "menu"
  /\ ret = "False"
  /\ paste_input.how = "skip"
  /\ Cardinality({i \in 1..Len(log) : log[i].e = "paste"}) = 2
  /\ Cardinality({i \in 1..Len(log) : log[i].e = "retry"}) = 1
  /\ log[Len(log)] = Ev("paste", "paste", "")
  /\ ~summary.printed

\* 'skip' typed after an empty line was returned as the pasted text
C39_SkipCollected ==
  /\ paste_input.state = "returned"
  /\ paste_input.lines = <<"", "skip">>
  /\ paste_input.result = Some(<<"skip">>)

\* the entries of LINK_WAIT_STRATEGIES whose pattern is in the lower-cased
\* URL looked up
Matching ==
  {i \in Indices(LINK_WAIT_STRATEGIES) :
     Contains(lower(wait_lookup.url), LINK_WAIT_STRATEGIES[i].pattern)}

\* C33: get_wait_strategy returns the strategy of the first entry of
\* LINK_WAIT_STRATEGIES whose pattern is a substring of the lower-cased
\* URL, and None when there is none; page.goto is given that strategy,
\* or "domcontentloaded" for None.
C33_FirstMatch ==
  wait_lookup.state = "done" =>
    IF Matching = {}
      THEN /\ wait_lookup.wait_strategy = None
           /\ wait_lookup.wait_until = "domcontentloaded"
      ELSE LET first == CHOOSE i \in Matching : \A k \in Matching : i <= k
           IN  /\ wait_lookup.wait_strategy =
                    Some(LINK_WAIT_STRATEGIES[first].strategy)
               /\ wait_lookup.wait_until =
                    LINK_WAIT_STRATEGIES[first].strategy

\* a URL that holds the pattern in capitals only was given 'networkidle'
C33_Witness ==
  /\ wait_lookup.state = "done"
  /\ wait_lookup.url =
       <<"/", "/", "O", "P", "E", "N", "G", "O", "V", ".", "c">>
  /\ wait_lookup.wait_until = "networkidle"

\* a URL that only resembles the pattern was given the default
C33_Default ==
  /\ wait_lookup.state = "done"
  /\ wait_lookup.url = <<"/", "/", "o", "p", "e", "n", "-", "g", "o", "v">>
  /\ wait_lookup.wait_strategy = None
  /\ wait_lookup.wait_until = "domcontentloaded"

\* C34: two debug files written for different markup never get the same
\* file name, whatever the time of the two calls.
C34_NoCollision ==
  \A i, j \in Indices(debug_dir.calls) :
    (/\ i < j
     /\ debug_dir.calls[i].written
     /\ debug_dir.calls[j].written
     /\ debug_dir.calls[i].html_content # debug_dir.calls[j].html_content)
      => debug_dir.calls[i].name # debug_dir.calls[j].name

\* two files were written for different markup of one URL within one
\* second, and the directory holds only the second
C34_Overwritten ==
  /\ Len(debug_dir.calls) = 2
  /\ debug_dir.calls[1].written /\ debug_dir.calls[2].written
  /\ debug_dir.calls[1].html_content # debug_dir.calls[2].html_content
  /\ debug_dir.calls[1].name = debug_dir.calls[2].name
  /\ Cardinality(debug_dir.files) = 1
  /\ \A f \in debug_dir.files :
       f.html_content = debug_dir.calls[2].html_content

====
